---------------------------- MODULE Spec2Model ----------------------------
(***************************************************************************)
(* EDIFACT INVOIC generator (src/update5/invoic.py).                       *)
(*                                                                         *)
(* Python strings are modelled as tuples of one-character strings, so that *)
(* strip, upper, replace, the regular expressions and the formatting of    *)
(* numbers are computed character by character.  A dictionary key that may *)
(* be missing holds an option: <<>> when the key is absent, <<v>> when it  *)
(* is present with value v.  A Decimal is the triple of its sign, integer  *)
(* coefficient and number of fractional digits.                            *)
(***************************************************************************)
EXTENDS Integers, Sequences, FiniteSets, TLC

---------------------------------------------------------------------------
(* Options (dictionary keys that may be absent) *)

Absent == <<>>

Some(v) == <<v>>

Has(o) == o # <<>>

Get(o) == o[1]

(* Python's None *)
None == <<"<None>">>

---------------------------------------------------------------------------
(* Characters and strings *)

LowerLetters == <<"a","b","c","d","e","f","g","h","i","j","k","l","m",
                  "n","o","p","q","r","s","t","u","v","w","x","y","z">>

UpperLetters == <<"A","B","C","D","E","F","G","H","I","J","K","L","M",
                  "N","O","P","Q","R","S","T","U","V","W","X","Y","Z">>

DigitChars == <<"0","1","2","3","4","5","6","7","8","9">>

Range(s) == {s[i] : i \in 1..Len(s)}

IsDigit(c) == c \in Range(DigitChars)

(* the value of a digit character *)
DigitVal(c) == CHOOSE d \in 0..9 : DigitChars[d + 1] = c

(* what str.isspace / the regular expression class \s accept *)
IsSpace(c) == c \in {" ", "\n", "\t", "\r"}

(* str.upper on one character *)
UpperChar(c) ==
    IF c \in Range(LowerLetters)
    THEN UpperLetters[CHOOSE i \in 1..26 : LowerLetters[i] = c]
    ELSE c

(* str.upper *)
Upper(s) == [i \in 1..Len(s) |-> UpperChar(s[i])]

RECURSIVE LStrip(_)
LStrip(s) == IF s # <<>> /\ IsSpace(Head(s)) THEN LStrip(Tail(s)) ELSE s

RECURSIVE RStrip(_)
RStrip(s) ==
    IF s # <<>> /\ IsSpace(s[Len(s)]) THEN RStrip(SubSeq(s, 1, Len(s) - 1)) ELSE s

(* str.strip *)
Strip(s) == RStrip(LStrip(s))

(* str(value): None prints as the word None *)
Str(value) == IF value = None THEN <<"N","o","n","e">> ELSE value

(* str.replace(c, rep) for a one-character pattern c *)
RECURSIVE Replace(_, _, _)
Replace(s, c, rep) ==
    IF s = <<>> THEN <<>>
    ELSE (IF Head(s) = c THEN rep ELSE <<Head(s)>>) \o Replace(Tail(s), c, rep)

(* sep.join(parts) *)
RECURSIVE Join(_, _)
Join(parts, sep) ==
    IF parts = <<>> THEN <<>>
    ELSE IF Len(parts) = 1 THEN parts[1]
    ELSE parts[1] \o sep \o Join(Tail(parts), sep)

(* the decimal digits of a natural number *)
RECURSIVE NatStr(_)
NatStr(n) == IF n < 10 THEN <<DigitChars[n + 1]>>
             ELSE NatStr(n \div 10) \o <<DigitChars[(n % 10) + 1]>>

RECURSIVE Pow10(_)
Pow10(k) == IF k = 0 THEN 1 ELSE 10 * Pow10(k - 1)

RECURSIVE Zeros(_)
Zeros(k) == IF k <= 0 THEN <<>> ELSE <<"0">> \o Zeros(k - 1)

---------------------------------------------------------------------------
(* EDIFACTConfig *)

DEFAULT_DATA_SEPARATOR == "+"
DEFAULT_COMPONENT_SEPARATOR == ":"
DEFAULT_SEGMENT_TERMINATOR == "'"

INVOIC_DOCUMENT_TYPE == <<"3","8","0">>
ORIGINAL_DOCUMENT == <<"9">>
VAT_TAX_CATEGORY == <<"V","A","T">>
BANK_TRANSFER_PAYMENT == <<"5">>
CREDIT_CARD_PAYMENT == <<"1">>
CASH_PAYMENT == <<"1","0">>

DEFAULT_EDI_VERSION == <<"D",":","9","6","A",":","U","N">>
DEFAULT_CHARACTER_SET == <<"U","N","O","A">>

MAX_PRODUCT_CODE_LENGTH == 35
MAX_DESCRIPTION_LENGTH == 70
MAX_NAME_LENGTH == 35
MAX_ADDRESS_LINE_LENGTH == 35
MAX_CITY_LENGTH == 35
MAX_COUNTRY_LENGTH == 3

VALID_PARTY_QUALIFIERS ==
    {<<"B","Y">>, <<"S","U">>, <<"I","V">>, <<"D","P">>, <<"P","E">>}

VALID_PAYMENT_METHODS ==
    {BANK_TRANSFER_PAYMENT, CREDIT_CARD_PAYMENT, CASH_PAYMENT}

VALID_CURRENCIES ==
    {<<"U","S","D">>, <<"E","U","R">>, <<"G","B","P">>, <<"J","P","Y">>,
     <<"C","A","D">>, <<"A","U","D">>, <<"C","H","F">>, <<"C","N","Y">>}

VALID_COUNTRIES ==
    {<<"U","S">>, <<"G","B">>, <<"F","R">>, <<"D","E">>, <<"I","T">>,
     <<"E","S">>, <<"N","L">>, <<"B","E">>, <<"C","N">>, <<"J","P">>,
     <<"A","U">>, <<"C","A">>}

SEGMENT_UNA == <<"U","N","A">>
SEGMENT_UNB == <<"U","N","B">>
SEGMENT_UNH == <<"U","N","H">>
SEGMENT_BGM == <<"B","G","M">>
SEGMENT_DTM == <<"D","T","M">>
SEGMENT_NAD == <<"N","A","D">>
SEGMENT_CUX == <<"C","U","X">>
SEGMENT_RFF == <<"R","F","F">>
SEGMENT_LIN == <<"L","I","N">>
SEGMENT_IMD == <<"I","M","D">>
SEGMENT_QTY == <<"Q","T","Y">>
SEGMENT_PRI == <<"P","R","I">>
SEGMENT_TAX == <<"T","A","X">>
SEGMENT_MOA == <<"M","O","A">>
SEGMENT_PAT == <<"P","A","T">>
SEGMENT_UNT == <<"U","N","T">>
SEGMENT_UNZ == <<"U","N","Z">>

(* the configuration EDIFACTGenerator.__init__ stores when built with its
   default arguments *)
DefaultConfig ==
    [data_separator      |-> DEFAULT_DATA_SEPARATOR,
     component_separator |-> DEFAULT_COMPONENT_SEPARATOR,
     segment_terminator  |-> DEFAULT_SEGMENT_TERMINATOR]

---------------------------------------------------------------------------
(* EDIFACTValidator *)

(* sanitize_value(value, uppercase, max_length); max_length is Absent for
   None. "if max_length and ...": None and 0 are both falsy *)
sanitize_value(value, uppercase, max_length) ==
    IF value = None THEN <<>>
    ELSE LET stripped == Strip(Str(value))
             result   == IF uppercase THEN Upper(stripped) ELSE stripped
         IN  IF Has(max_length) /\ Get(max_length) # 0 /\ Len(result) > Get(max_length)
             THEN SubSeq(result, 1, Get(max_length))
             ELSE result


(* ---- datetime.strptime(date_str.strip(), "%Y%m%d") ---- *)

AllDigits(s) == \A i \in 1..Len(s) : IsDigit(s[i])

RECURSIVE DigitsVal(_)
DigitsVal(s) ==
    IF s = <<>> THEN 0 ELSE 10 * DigitsVal(SubSeq(s, 1, Len(s) - 1)) + DigitVal(s[Len(s)])

(* does s start with one character of each of the given classes, in turn *)
StartsWith(s, classes) ==
    /\ Len(s) >= Len(classes)
    /\ \A i \in 1..Len(classes) : s[i] \in classes[i]

DigitSet == Range(DigitChars)

(* %m is the group (1[0-2]|0[1-9]|[1-9]): the lengths of the alternatives
   that match a prefix of s, in the order the regular expression tries them *)
MonthLens(s) ==
    (IF StartsWith(s, <<{"1"}, {"0","1","2"}>>) THEN <<2>> ELSE <<>>)
    \o (IF StartsWith(s, <<{"0"}, DigitSet \ {"0"}>>) THEN <<2>> ELSE <<>>)
    \o (IF StartsWith(s, <<DigitSet \ {"0"}>>) THEN <<1>> ELSE <<>>)

(* %d is the group (3[0-1]|[1-2]\d|0[1-9]|[1-9]| [1-9]): the length of the
   first alternative that matches a prefix of s, 0 when none does *)
DayLen(s) ==
    IF StartsWith(s, <<{"3"}, {"0","1"}>>) THEN 2
    ELSE IF StartsWith(s, <<{"1","2"}, DigitSet>>) THEN 2
    ELSE IF StartsWith(s, <<{"0"}, DigitSet \ {"0"}>>) THEN 2
    ELSE IF StartsWith(s, <<DigitSet \ {"0"}>>) THEN 1
    ELSE IF StartsWith(s, <<{" "}, DigitSet \ {"0"}>>) THEN 2
    ELSE 0

IsLeap(y) == (y % 4 = 0 /\ y % 100 # 0) \/ y % 400 = 0

DaysInMonth(y, m) ==
    IF m = 2 THEN (IF IsLeap(y) THEN 29 ELSE 28)
    ELSE IF m \in {4, 6, 9, 11} THEN 30 ELSE 31

(* the month of ml digits and the day of dl digits at the head of rest make a
   date of year y, and nothing is left over *)
DateOk(y, rest, ml, dl) ==
    /\ ml + dl = Len(rest)
    /\ y >= 1
    /\ DigitsVal(Strip(SubSeq(rest, ml + 1, ml + dl)))
           <= DaysInMonth(y, DigitsVal(SubSeq(rest, 1, ml)))

(* the first month alternative after which a day alternative matches is the
   match of the regular expression *)
RECURSIVE MatchMonthDay(_, _, _)
MatchMonthDay(y, rest, cands) ==
    IF cands = <<>> THEN FALSE
    ELSE IF DayLen(SubSeq(rest, Head(cands) + 1, Len(rest))) > 0
    THEN DateOk(y, rest, Head(cands), DayLen(SubSeq(rest, Head(cands) + 1, Len(rest))))
    ELSE MatchMonthDay(y, rest, Tail(cands))

(* the month and day part of the string matches and makes a date of year y *)
MonthDayOk(y, rest) == MatchMonthDay(y, rest, MonthLens(rest))

(* strptime succeeds: the pattern matches a prefix (first alternatives
   first), the match consumes the whole string, and the fields are a date *)
StrptimeOk(s) ==
    /\ Len(s) >= 4
    /\ AllDigits(SubSeq(s, 1, 4))
    /\ MonthDayOk(DigitsVal(SubSeq(s, 1, 4)), SubSeq(s, 5, Len(s)))

(* validate_date(date_str, "%Y%m%d") *)
validate_date(date_str) == StrptimeOk(Strip(date_str))

(* ---- Decimal ---- *)

NotADecimal == [ok |-> FALSE, sign |-> 0, coef |-> 0, exp |-> 0]

(* the digits before and after the decimal point *)
ParseDigits(sign, ip, fp) ==
    IF AllDigits(ip) /\ AllDigits(fp) /\ Len(ip) + Len(fp) >= 1
    THEN [ok |-> TRUE, sign |-> sign, coef |-> DigitsVal(ip \o fp), exp |-> Len(fp)]
    ELSE NotADecimal

(* the unsigned part, dots being the positions of its decimal points *)
ParseParts(sign, body, dots) ==
    IF dots = {} THEN ParseDigits(sign, body, <<>>)
    ELSE IF Cardinality(dots) > 1 THEN NotADecimal
    ELSE ParseDigits(sign,
                     SubSeq(body, 1, (CHOOSE i \in dots : TRUE) - 1),
                     SubSeq(body, (CHOOSE i \in dots : TRUE) + 1, Len(body)))

ParseUnsigned(sign, body) ==
    ParseParts(sign, body, {i \in 1..Len(body) : body[i] = "."})

ParseSigned(t) ==
    IF t # <<>> /\ t[1] \in {"-", "+"}
    THEN ParseUnsigned(IF t[1] = "-" THEN 1 ELSE 0, Tail(t))
    ELSE ParseUnsigned(0, t)

(* Decimal(s): the constructor strips white space and underscores, then
   wants [sign] digits [. digits] with a digit somewhere.  Exponents and the
   special values Infinity and NaN are outside the alphabet of the inputs
   and are not parsed. *)
ParseDecimal(s) == ParseSigned(Replace(Strip(s), "_", <<>>))

Dec(sign, coef, exp) == [ok |-> TRUE, sign |-> sign, coef |-> coef, exp |-> exp]

(* a * b *)
DecMul(a, b) == Dec((a.sign + b.sign) % 2, a.coef * b.coef, a.exp + b.exp)

(* the coefficient with its sign, at e fractional digits *)
Scaled(a, e) == (IF a.sign = 1 THEN -1 ELSE 1) * a.coef * Pow10(e - a.exp)

(* a + b *)
DecAdd(a, b) ==
    LET e == IF a.exp > b.exp THEN a.exp ELSE b.exp
        v == Scaled(a, e) + Scaled(b, e)
    IN  IF v < 0 THEN Dec(1, -v, e)
        ELSE IF v > 0 THEN Dec(0, v, e)
        ELSE Dec(IF a.sign = 1 /\ b.sign = 1 THEN 1 ELSE 0, 0, e)

(* a / Decimal("100"): exact, the exponent kept as near a's as the quotient
   allows *)
DecDivHundred(a) ==
    IF a.coef % 100 = 0 THEN Dec(a.sign, a.coef \div 100, a.exp)
    ELSE IF a.coef % 10 = 0 THEN Dec(a.sign, a.coef \div 10, a.exp + 1)
    ELSE Dec(a.sign, a.coef, a.exp + 2)

(* a > 0 *)
DecPositive(a) == a.sign = 0 /\ a.coef > 0

(* a >= 0 *)
DecNonNegative(a) == a.sign = 0 \/ a.coef = 0

(* the number of hundredths nearest to |a|, ties to the even one
   (ROUND_HALF_EVEN, the rounding of the default context) *)
RoundCents(a) ==
    IF a.exp <= 2 THEN a.coef * Pow10(2 - a.exp)
    ELSE LET unit == Pow10(a.exp - 2)
             q    == a.coef \div unit
             r    == a.coef % unit
         IN  IF 2 * r > unit THEN q + 1
             ELSE IF 2 * r < unit THEN q
             ELSE IF q % 2 = 0 THEN q ELSE q + 1

(* a number of hundredths printed with two decimals *)
CentsStr(c) ==
    NatStr(c \div 100) \o <<".">> \o <<DigitChars[((c % 100) \div 10) + 1]>>
        \o <<DigitChars[(c % 10) + 1]>>

(* f"{a:.2f}" *)
Fmt2(a) == (IF a.sign = 1 THEN <<"-">> ELSE <<>>) \o CentsStr(RoundCents(a))

(* str(a), plain notation *)
DecStr(a) ==
    LET digits == NatStr(a.coef)
        n      == Len(digits)
    IN  (IF a.sign = 1 THEN <<"-">> ELSE <<>>)
        \o (IF a.exp = 0 THEN digits
            ELSE IF n > a.exp
                 THEN SubSeq(digits, 1, n - a.exp) \o <<".">> \o SubSeq(digits, n - a.exp + 1, n)
                 ELSE <<"0", ".">> \o Zeros(a.exp - n) \o digits)

(* num >= 0, for a number that parsed *)
NonNegativeDecimal(num) == num.ok /\ DecNonNegative(num)

(* validate_positive_number without the comparison with zero *)
validate_number_of_any_sign(value) == ParseDecimal(Strip(Str(value))).ok

(* validate_positive_number(value) *)
validate_positive_number(value) == NonNegativeDecimal(ParseDecimal(Strip(Str(value))))

(* the class [a-zA-Z0-9\s_\-\.\@\#\&] *)
AllowedChar(c) ==
    \/ c \in Range(LowerLetters) \/ c \in Range(UpperLetters)
    \/ IsDigit(c) \/ IsSpace(c)
    \/ c \in {"_", "-", ".", "@", "#", "&"}

(* validate_alphanumeric(value, field_name) returns without raising *)
validate_alphanumeric(value) ==
    Len(value) >= 1 /\ \A i \in 1..Len(value) : AllowedChar(value[i])

(* ---- errors ---- *)

NoError == [exc |-> "", msg |-> "", field |-> "", index |-> 0]

(* raise EDIFACTGeneratorError(msg) *)
GeneratorError(msg, field, index) ==
    [exc |-> "EDIFACTGeneratorError", msg |-> msg, field |-> field, index |-> index]

(* an exception of another class escaping the generator *)
OtherError(exc, what) == [exc |-> exc, msg |-> what, field |-> "", index |-> 0]

(* validate_party(party): the error it raises, NoError when it returns *)
validate_party(party) ==
    IF ~Has(party.qualifier) \/ ~Has(party.id)
    THEN GeneratorError("Each party must have 'qualifier' and 'id'", "parties", 0)
    ELSE LET qualifier == sanitize_value(Get(party.qualifier), TRUE, Absent)
             party_id  == sanitize_value(Get(party.id), FALSE, Absent)
         IN  IF qualifier \notin VALID_PARTY_QUALIFIERS
             THEN GeneratorError("Invalid party qualifier", "parties", 0)
             ELSE IF party_id = <<>>
             THEN GeneratorError("Party ID must be a non-empty string", "parties", 0)
             ELSE IF /\ Has(party.name)
                     /\ ~validate_alphanumeric(
                            sanitize_value(Get(party.name), FALSE, Some(MAX_NAME_LENGTH)))
             THEN GeneratorError("Invalid characters in party name", "parties", 0)
             ELSE IF /\ Has(party.country)
                     /\ sanitize_value(Get(party.country), TRUE, Absent) \notin VALID_COUNTRIES
             THEN GeneratorError("Invalid country code", "parties", 0)
             ELSE NoError

ItemRequiredFields == <<"product_code", "description", "quantity", "price">>

(* validate_item without its two length checks *)
validate_item_of_any_length(item, index) ==
    LET missing == {k \in 1..Len(ItemRequiredFields) : ~Has(item[ItemRequiredFields[k]])}
    IN  IF missing # {}
        THEN GeneratorError("Item missing required field",
                 ItemRequiredFields[CHOOSE k \in missing : \A j \in missing : k <= j],
                 index)
        ELSE IF ~validate_alphanumeric(sanitize_value(Get(item.product_code), FALSE, Absent))
        THEN GeneratorError("Invalid characters in product code", "product_code", 0)
        ELSE IF ~validate_alphanumeric(sanitize_value(Get(item.description), FALSE, Absent))
        THEN GeneratorError("Invalid characters in description", "description", 0)
        ELSE IF ~validate_positive_number(Get(item.quantity))
        THEN GeneratorError("Item has invalid quantity", "quantity", index)
        ELSE IF ~validate_positive_number(Get(item.price))
        THEN GeneratorError("Item has invalid price", "price", index)
        ELSE IF Has(item.tax_rate) /\ ~validate_positive_number(Get(item.tax_rate))
        THEN GeneratorError("Item has invalid tax_rate", "tax_rate", index)
        ELSE IF /\ Has(item.unit)
                /\ ~validate_alphanumeric(sanitize_value(Get(item.unit), TRUE, Absent))
        THEN GeneratorError("Invalid characters in unit", "unit", 0)
        ELSE NoError

(* validate_item(item, index): the error it raises, NoError when it returns *)
validate_item(item, index) ==
    LET missing == {k \in 1..Len(ItemRequiredFields) : ~Has(item[ItemRequiredFields[k]])}
    IN  IF missing # {}
        THEN GeneratorError("Item missing required field",
                 ItemRequiredFields[CHOOSE k \in missing : \A j \in missing : k <= j],
                 index)
        ELSE LET product_code == sanitize_value(Get(item.product_code), FALSE, Absent)
                 description  == sanitize_value(Get(item.description), FALSE, Absent)
             IN  IF ~validate_alphanumeric(product_code)
                 THEN GeneratorError("Invalid characters in product code", "product_code", 0)
                 ELSE IF ~validate_alphanumeric(description)
                 THEN GeneratorError("Invalid characters in description", "description", 0)
                 ELSE IF Len(product_code) > MAX_PRODUCT_CODE_LENGTH
                 THEN GeneratorError("Item product code exceeds maximum length",
                                     "product_code", index)
                 ELSE IF Len(description) > MAX_DESCRIPTION_LENGTH
                 THEN GeneratorError("Item description exceeds maximum length",
                                     "description", index)
                 ELSE IF ~validate_positive_number(Get(item.quantity))
                 THEN GeneratorError("Item has invalid quantity", "quantity", index)
                 ELSE IF ~validate_positive_number(Get(item.price))
                 THEN GeneratorError("Item has invalid price", "price", index)
                 ELSE IF Has(item.tax_rate) /\ ~validate_positive_number(Get(item.tax_rate))
                 THEN GeneratorError("Item has invalid tax_rate", "tax_rate", index)
                 ELSE IF /\ Has(item.unit)
                         /\ ~validate_alphanumeric(sanitize_value(Get(item.unit), TRUE, Absent))
                 THEN GeneratorError("Invalid characters in unit", "unit", 0)
                 ELSE NoError

---------------------------------------------------------------------------
(* EDIFACTGenerator._validate_invoice_data *)

RequiredFields ==
    <<"message_ref", "invoice_number", "invoice_date", "parties", "items">>

(* the loop over required_fields for one field: the key is there and its
   value is not empty (every value of the model has the required type) *)
RequiredFieldError(data, f) ==
    IF ~Has(data[f]) THEN GeneratorError("Missing required field", f, 0)
    ELSE IF Get(data[f]) = <<>> THEN GeneratorError("Field cannot be empty", f, 0)
    ELSE NoError

(* the first error in a sequence of check results *)
FirstError(errs) ==
    IF \A i \in 1..Len(errs) : errs[i] = NoError THEN NoError
    ELSE errs[CHOOSE i \in 1..Len(errs) :
                 errs[i] # NoError /\ \A j \in 1..(i - 1) : errs[j] = NoError]

(* a check raises err, or returns and the statements after it run *)
Then(err, rest) == IF err # NoError THEN err ELSE rest

(* QualifiersError asking for a buyer only *)
QualifiersErrorBuyerOnly(parties) ==
    IF \E i \in 1..Len(parties) : ~Has(parties[i].qualifier)
    THEN OtherError("KeyError", "qualifier")
    ELSE IF <<"B","Y">> \notin
                {sanitize_value(Get(parties[i].qualifier), TRUE, Absent) : i \in 1..Len(parties)}
    THEN GeneratorError("Missing required party qualifiers", "parties", 0)
    ELSE NoError

(* the set comprehension over party["qualifier"] and the check for BY and SU *)
QualifiersError(parties) ==
    IF \E i \in 1..Len(parties) : ~Has(parties[i].qualifier)
    THEN OtherError("KeyError", "qualifier")
    ELSE LET party_qualifiers ==
                 {sanitize_value(Get(parties[i].qualifier), TRUE, Absent) : i \in 1..Len(parties)}
         IN  IF {<<"B","Y">>, <<"S","U">>} \ party_qualifiers # {}
             THEN GeneratorError("Missing required party qualifiers", "parties", 0)
             ELSE NoError

PaymentTermsError(data) ==
    IF ~Has(data.payment_terms) THEN NoError
    ELSE LET pt == Get(data.payment_terms)
         IN  IF Has(pt.due_date) /\ ~validate_date(Get(pt.due_date))
             THEN GeneratorError("Invalid due_date format", "due_date", 0)
             ELSE IF /\ Has(pt.method)
                     /\ sanitize_value(Get(pt.method), FALSE, Absent) \notin VALID_PAYMENT_METHODS
             THEN GeneratorError("Invalid payment method", "method", 0)
             ELSE NoError

CurrencyError(data) ==
    IF /\ Has(data.currency)
       /\ sanitize_value(Get(data.currency), TRUE, Absent) \notin VALID_CURRENCIES
    THEN GeneratorError("Invalid currency", "currency", 0)
    ELSE NoError

ReferenceError(data) ==
    IF ~Has(data.reference) THEN NoError
    ELSE LET reference == sanitize_value(Get(data.reference), FALSE, Absent)
         IN  IF reference = <<>>
             THEN GeneratorError("Reference cannot be empty", "reference", 0)
             ELSE IF ~validate_alphanumeric(reference)
             THEN GeneratorError("Invalid characters in reference", "reference", 0)
             ELSE NoError

RequiredError(data) ==
    FirstError([k \in 1..Len(RequiredFields) |-> RequiredFieldError(data, RequiredFields[k])])

MessageRefError(data) ==
    IF ~validate_alphanumeric(sanitize_value(Get(data.message_ref), FALSE, Absent))
    THEN GeneratorError("Invalid characters in message reference", "message_ref", 0)
    ELSE NoError

InvoiceDateError(data) ==
    IF ~validate_date(Get(data.invoice_date))
    THEN GeneratorError("Invalid invoice_date format", "invoice_date", 0)
    ELSE NoError

PartiesError(parties) ==
    FirstError([i \in 1..Len(parties) |-> validate_party(parties[i])])

ItemsError(items) ==
    IF Len(items) = 0
    THEN GeneratorError("INVOIC must contain at least one item", "items", 0)
    ELSE FirstError([i \in 1..Len(items) |-> validate_item(items[i], i)])

(* _validate_invoice_data with the date of the invoice checked before the
   message reference *)
validate_invoice_date_first(data) ==
    Then(RequiredError(data),
    Then(InvoiceDateError(data),
    Then(MessageRefError(data),
    Then(QualifiersError(Get(data.parties)),
    Then(PartiesError(Get(data.parties)),
    Then(ItemsError(Get(data.items)),
    Then(PaymentTermsError(data),
    Then(CurrencyError(data),
         ReferenceError(data)))))))))

(* _validate_invoice_data(data, "%Y%m%d"): the error it raises, NoError when
   it returns.  The checks run in the order of the statements of the method
   and the first one that fails raises. *)
validate_invoice_data(data) ==
    Then(RequiredError(data),
    Then(MessageRefError(data),
    Then(InvoiceDateError(data),
    Then(QualifiersError(Get(data.parties)),
    Then(PartiesError(Get(data.parties)),
    Then(ItemsError(Get(data.items)),
    Then(PaymentTermsError(data),
    Then(CurrencyError(data),
         ReferenceError(data)))))))))

---------------------------------------------------------------------------
(* EDIFACTGenerator: segments *)

(* _escape_segment_value without its last replacement, that of the space *)
escape_leaving_spaces(cfg, value) ==
    LET v1 == Replace(value, "?", <<"?", "?">>)
        v2 == Replace(v1, "'", <<"?", "'">>)
        v3 == Replace(v2, cfg.data_separator, <<"?", cfg.data_separator>>)
    IN  Replace(v3, cfg.component_separator, <<"?", cfg.component_separator>>)

(* _escape_segment_value with the release character escaped after the
   delimiters instead of before them *)
escape_release_last(cfg, value) ==
    LET v1 == Replace(value, "'", <<"?", "'">>)
        v2 == Replace(v1, cfg.data_separator, <<"?", cfg.data_separator>>)
        v3 == Replace(v2, cfg.component_separator, <<"?", cfg.component_separator>>)
        v4 == Replace(v3, " ", <<"?", " ">>)
    IN  Replace(v4, "?", <<"?", "?">>)

(* _escape_segment_value(value), for a generator configured with cfg: five
   replacements one after the other, each over the result of the one before *)
escape_segment_value(cfg, value) ==
    LET v1 == Replace(value, "?", <<"?", "?">>)
        v2 == Replace(v1, "'", <<"?", "'">>)
        v3 == Replace(v2, cfg.data_separator, <<"?", cfg.data_separator>>)
        v4 == Replace(v3, cfg.component_separator, <<"?", cfg.component_separator>>)
    IN  Replace(v4, " ", <<"?", " ">>)

(* _build_segment(segment_id, *elements) *)
build_segment(cfg, segment_id, elements) ==
    segment_id \o <<cfg.data_separator>> \o Join(elements, <<cfg.data_separator>>)
        \o <<cfg.segment_terminator>>

(* components joined by the component separator, as the f-strings do *)
Comp(cfg, parts) == Join(parts, <<cfg.component_separator>>)

(* x or default, for an optional string argument: None and "" are falsy *)
OrElse(opt, default) == IF Has(opt) /\ Get(opt) # <<>> THEN Get(opt) ELSE default

(* now.strftime("%y%m%d:%H%M") when the clock reads t minutes past
   2025-03-22 10:00 *)
Timestamp(t) ==
    <<"2","5","0","3","2","2",":","1","0">> \o <<DigitChars[(t \div 10) + 1], DigitChars[(t % 10) + 1]>>

(* _generate_interchange_header(data, interchange_control_ref,
   application_ref, character_set), the clock reading t *)
generate_interchange_header(cfg, data, interchange_control_ref, application_ref, t) ==
    LET control_ref == OrElse(interchange_control_ref,
                              sanitize_value(Get(data.message_ref), FALSE, Absent))
        app_ref     == OrElse(application_ref, <<"P","Y","E","D","I","F","A","C","T">>)
    IN  build_segment(cfg, SEGMENT_UNB,
            << Comp(cfg, <<<<"U","N","O","C">>, <<"3">>>>),
               Comp(cfg, <<app_ref, control_ref>>),
               Comp(cfg, <<<<"R","E","C","E","I","V","E","R">>, <<"0","0","1">>>>),
               Timestamp(t),
               control_ref,
               Comp(cfg, <<<<"1">>, DEFAULT_CHARACTER_SET>>) >>)

(* _generate_message_header(data, edi_version, character_set) *)
generate_message_header(cfg, data) ==
    build_segment(cfg, SEGMENT_UNH,
        << escape_segment_value(cfg, sanitize_value(Get(data.message_ref), FALSE, Absent)),
           Comp(cfg, <<<<"I","N","V","O","I","C">>, DEFAULT_EDI_VERSION, DEFAULT_CHARACTER_SET>>) >>)

(* the BGM segment of generate_invoic *)
BgmSegment(cfg, data) ==
    build_segment(cfg, SEGMENT_BGM,
        << INVOIC_DOCUMENT_TYPE,
           escape_segment_value(cfg, sanitize_value(Get(data.invoice_number), FALSE, Absent)),
           ORIGINAL_DOCUMENT >>)

(* the DTM segment of generate_invoic: the date as it stands in the record *)
DtmSegment(cfg, data) ==
    build_segment(cfg, SEGMENT_DTM,
        << Comp(cfg, <<<<"1","3","7">>, Get(data.invoice_date), <<"1","0","2">>>>) >>)

(* the CUX segment of generate_invoic: the currency as it stands in the record *)
CuxSegment(cfg, data) ==
    build_segment(cfg, SEGMENT_CUX,
        << Comp(cfg, <<<<"2">>, Get(data.currency), <<"9">>>>) >>)

(* the RFF segment of generate_invoic *)
RffSegment(cfg, data) ==
    build_segment(cfg, SEGMENT_RFF,
        << Comp(cfg, <<<<"O","N">>,
               escape_segment_value(cfg, sanitize_value(Get(data.reference), FALSE, Absent))>>) >>)

(* the body of the loop of _generate_party_segments: one NAD segment *)
NadSegment(cfg, party) ==
    LET qualifier == sanitize_value(Get(party.qualifier), TRUE, Absent)
        party_id  == escape_segment_value(cfg, sanitize_value(Get(party.id), FALSE, Absent))
        name      == IF Has(party.name)
                     THEN escape_segment_value(cfg,
                              sanitize_value(Get(party.name), FALSE, Some(MAX_NAME_LENGTH)))
                     ELSE <<>>
        street    == IF Has(party.street)
                     THEN <<escape_segment_value(cfg,
                              sanitize_value(Get(party.street), FALSE, Some(MAX_ADDRESS_LINE_LENGTH)))>>
                     ELSE <<>>
        city      == IF Has(party.city)
                     THEN <<escape_segment_value(cfg,
                              sanitize_value(Get(party.city), FALSE, Some(MAX_CITY_LENGTH)))>>
                     ELSE <<>>
        country   == IF Has(party.country)
                     THEN <<sanitize_value(Get(party.country), TRUE, Some(MAX_COUNTRY_LENGTH))>>
                     ELSE <<>>
        address_elements == street \o city \o country
        elements  == <<qualifier, party_id, <<"9","1">>, name>>
                     \o (IF address_elements # <<>>
                         THEN <<Comp(cfg, address_elements)>> ELSE <<>>)
    IN  build_segment(cfg, SEGMENT_NAD, elements)

(* _generate_party_segments(parties): party["qualifier"] and party["id"]
   raise KeyError when the key is missing *)
generate_party_segments(cfg, parties) ==
    IF \E i \in 1..Len(parties) : ~Has(parties[i].qualifier) \/ ~Has(parties[i].id)
    THEN [error |-> OtherError("KeyError", "party"), segments |-> <<>>]
    ELSE [error |-> NoError,
          segments |-> [i \in 1..Len(parties) |-> NadSegment(cfg, parties[i])]]

---------------------------------------------------------------------------
(* _process_items *)

(* Decimal(sanitize_value(item[key])), the key defaulting to "0" for tax_rate *)
ItemDecimal(item, key) ==
    ParseDecimal(sanitize_value(
        IF Has(item[key]) THEN Get(item[key]) ELSE <<"0">>, FALSE, Absent))

(* sanitize_value(item.get("unit", "EA"), uppercase=True) *)
ItemUnit(item) ==
    sanitize_value(IF Has(item.unit) THEN Get(item.unit) ELSE <<"E","A">>, TRUE, Absent)

(* tax_value without the division by 100: the rate taken as a factor *)
TaxValueOfFactor(line_total, tax_rate) == DecMul(line_total, tax_rate)

(* tax_value = (line_total * tax_rate) / Decimal("100") *)
TaxValue(line_total, tax_rate) == DecDivHundred(DecMul(line_total, tax_rate))

(* the LIN, IMD, QTY and PRI segments of one iteration of the loop *)
LineSegments(cfg, item, index, quantity, price, unit) ==
    << build_segment(cfg, SEGMENT_LIN,
           << NatStr(index), <<>>,
              Comp(cfg, <<escape_segment_value(cfg,
                              sanitize_value(Get(item.product_code), FALSE, Absent)),
                          <<"E","N">>>>) >>),
       build_segment(cfg, SEGMENT_IMD,
           << <<"F">>, <<>>, <<>>, <<>>,
              escape_segment_value(cfg, sanitize_value(Get(item.description), FALSE, Absent)) >>),
       build_segment(cfg, SEGMENT_QTY, << Comp(cfg, <<<<"4","7">>, DecStr(quantity), unit>>) >>),
       build_segment(cfg, SEGMENT_PRI, << Comp(cfg, <<<<"A","A","A">>, Fmt2(price), unit>>) >>) >>

(* the TAX and MOA segments of one iteration, inside "if tax_rate > 0" *)
TaxSegments(cfg, tax_rate, tax_value) ==
    << build_segment(cfg, SEGMENT_TAX,
           << <<"7">>, VAT_TAX_CATEGORY, <<>>, <<>>, Fmt2(tax_rate), <<"S">> >>),
       build_segment(cfg, SEGMENT_MOA, << Comp(cfg, <<<<"1","2","5">>, Fmt2(tax_value)>>) >>) >>

(* ProcessLine with the tax of the line rounded to cents before it is added
   to total_tax *)
ProcessLineRoundedTax(cfg, before, item, index, quantity, price, tax_rate, unit, line_total) ==
    [total_amount |-> DecAdd(before.total_amount, line_total),
     total_tax    |-> IF DecPositive(tax_rate)
                      THEN DecAdd(before.total_tax,
                                  Dec(0, RoundCents(TaxValue(line_total, tax_rate)), 2))
                      ELSE before.total_tax,
     segments     |-> before.segments
                      \o LineSegments(cfg, item, index, quantity, price, unit)
                      \o (IF DecPositive(tax_rate)
                          THEN TaxSegments(cfg, tax_rate, TaxValue(line_total, tax_rate))
                          ELSE <<>>)]

(* the rest of one iteration once line_total = price * quantity is known:
   the totals and segments after it, from those before it *)
ProcessLine(cfg, before, item, index, quantity, price, tax_rate, unit, line_total) ==
    [total_amount |-> DecAdd(before.total_amount, line_total),
     total_tax    |-> IF DecPositive(tax_rate)
                      THEN DecAdd(before.total_tax, TaxValue(line_total, tax_rate))
                      ELSE before.total_tax,
     segments     |-> before.segments
                      \o LineSegments(cfg, item, index, quantity, price, unit)
                      \o (IF DecPositive(tax_rate)
                          THEN TaxSegments(cfg, tax_rate, TaxValue(line_total, tax_rate))
                          ELSE <<>>)]

(* one iteration of the loop, its first four assignments done *)
ProcessParsed(cfg, before, item, index, quantity, price, tax_rate, unit) ==
    ProcessLine(cfg, before, item, index, quantity, price, tax_rate, unit,
                DecMul(price, quantity))

(* one iteration of the loop of _process_items *)
ProcessItem(cfg, before, item, index) ==
    ProcessParsed(cfg, before, item, index,
                  ItemDecimal(item, "quantity"), ItemDecimal(item, "price"),
                  ItemDecimal(item, "tax_rate"), ItemUnit(item))

(* the item can go through the loop body: its keys are there and Decimal()
   accepts its numbers *)
ItemProcessable(item) ==
    /\ \A k \in 1..Len(ItemRequiredFields) : Has(item[ItemRequiredFields[k]])
    /\ \A key \in {"quantity", "price", "tax_rate"} : ItemDecimal(item, key).ok

(* the loop of _process_items over items[1..n] *)
RECURSIVE ProcessLoop(_, _, _)
ProcessLoop(cfg, items, n) ==
    IF n = 0
    THEN [total_amount |-> Dec(0, 0, 2), total_tax |-> Dec(0, 0, 2), segments |-> <<>>]
    ELSE ProcessItem(cfg, ProcessLoop(cfg, items, n - 1), items[n], n)

(* _process_items(items): KeyError or decimal.InvalidOperation escape from
   the loop when an item cannot be processed *)
process_items(cfg, items) ==
    IF \E i \in 1..Len(items) : ~ItemProcessable(items[i])
    THEN [error |-> OtherError("InvalidOperation", "item"),
          total_amount |-> Dec(0, 0, 2), total_tax |-> Dec(0, 0, 2), segments |-> <<>>]
    ELSE [error |-> NoError] @@ ProcessLoop(cfg, items, Len(items))

(* _generate_monetary_segments with the tax left out of the grand total *)
monetary_segments_without_tax(cfg, total_amount, total_tax) ==
    << build_segment(cfg, SEGMENT_MOA, << Comp(cfg, <<<<"8","6">>, Fmt2(total_amount)>>) >>),
       build_segment(cfg, SEGMENT_MOA, << Comp(cfg, <<<<"1","7","6">>, Fmt2(total_tax)>>) >>),
       build_segment(cfg, SEGMENT_MOA, << Comp(cfg, <<<<"9">>, Fmt2(total_amount)>>) >>) >>

(* _generate_monetary_segments with the grand total added up from the two
   totals as printed, each already rounded to cents *)
monetary_segments_of_rounded_totals(cfg, total_amount, total_tax) ==
    << build_segment(cfg, SEGMENT_MOA, << Comp(cfg, <<<<"8","6">>, Fmt2(total_amount)>>) >>),
       build_segment(cfg, SEGMENT_MOA, << Comp(cfg, <<<<"1","7","6">>, Fmt2(total_tax)>>) >>),
       build_segment(cfg, SEGMENT_MOA,
           << Comp(cfg, <<<<"9">>,
                         CentsStr(RoundCents(total_amount) + RoundCents(total_tax))>>) >>) >>

(* _generate_monetary_segments(total_amount, total_tax) *)
generate_monetary_segments(cfg, total_amount, total_tax) ==
    LET grand_total == DecAdd(total_amount, total_tax)
    IN  << build_segment(cfg, SEGMENT_MOA, << Comp(cfg, <<<<"8","6">>, Fmt2(total_amount)>>) >>),
           build_segment(cfg, SEGMENT_MOA, << Comp(cfg, <<<<"1","7","6">>, Fmt2(total_tax)>>) >>),
           build_segment(cfg, SEGMENT_MOA, << Comp(cfg, <<<<"9">>, Fmt2(grand_total)>>) >>) >>

(* _generate_payment_segments(payment_terms, date_format) *)
generate_payment_segments(cfg, payment_terms) ==
    IF Has(payment_terms.due_date)
    THEN LET payment_method ==
                 sanitize_value(IF Has(payment_terms.method)
                                THEN Get(payment_terms.method)
                                ELSE BANK_TRANSFER_PAYMENT, FALSE, Absent)
         IN  << build_segment(cfg, SEGMENT_PAT, << <<"1">>, <<>>, payment_method >>),
                build_segment(cfg, SEGMENT_DTM,
                    << Comp(cfg, <<<<"1","3">>, Get(payment_terms.due_date), <<"1","0","2">>>>) >>) >>
    ELSE <<>>

(* the UNT segment of generate_invoic, written when segment_count segments
   have been counted *)
UntSegment(cfg, data, segment_count) ==
    build_segment(cfg, SEGMENT_UNT,
        << NatStr(segment_count + 2),
           escape_segment_value(cfg, sanitize_value(Get(data.message_ref), FALSE, Absent)) >>)

(* the UNZ segment with the message reference, whatever the caller's
   interchange control reference *)
UnzSegmentOfMessageRef(cfg, data, interchange_control_ref) ==
    build_segment(cfg, SEGMENT_UNZ,
        << <<"1">>, sanitize_value(Get(data.message_ref), FALSE, Absent) >>)

(* the UNZ segment of generate_invoic *)
UnzSegment(cfg, data, interchange_control_ref) ==
    build_segment(cfg, SEGMENT_UNZ,
        << <<"1">>,
           OrElse(interchange_control_ref,
                  sanitize_value(Get(data.message_ref), FALSE, Absent)) >>)


---------------------------------------------------------------------------
(* The inputs: invoice records, the arguments of generate_invoic and the
   file the call may write.  A call differs from BaseCall in one field, which
   takes any value of the pool of that field, or in two fields, each of
   which takes one of a few values of its pool. *)

MaxParties == 3
MaxItems == 2
MaxCalls == 2
MaxLen == 3

Party(qualifier, id, name, street, city, country) ==
    [qualifier |-> qualifier, id |-> id, name |-> name,
     street |-> street, city |-> city, country |-> country]

BuyerParty == Party(Some(<<"B","Y">>), Some(<<"1">>), Absent, Absent, Absent, Absent)

SupplierParty ==
    Party(Some(<<" ","s","u">>), Some(<<"2"," ">>), Some(<<"A"," ","b">>), Absent, Absent, Some(<<"u","s">>))

InvoiceeParty ==
    Party(Some(<<"I","V">>), Some(<<"3","+">>), Absent, Some(<<"S",":","1">>), Some(<<"C">>), Absent)

UnknownParty == Party(Some(<<"X","X">>), Some(<<"4">>), Absent, Absent, Absent, Absent)

NoQualifierParty == Party(Absent, Some(<<"5">>), Absent, Absent, Absent, Absent)

(* a buyer without the key id *)
NoIdParty == Party(Some(<<"B","Y">>), Absent, Absent, Absent, Absent, Absent)

GoodParties == {BuyerParty, SupplierParty, InvoiceeParty}

BadParties == {UnknownParty, NoQualifierParty, NoIdParty}

Item(product_code, description, quantity, price, tax_rate, unit) ==
    [product_code |-> product_code, description |-> description,
     quantity |-> quantity, price |-> price, tax_rate |-> tax_rate, unit |-> unit]

(* 1 x 0.05 taxed at 10 %: a tax of half a cent *)
Item1 == Item(Some(<<"P","1">>), Some(<<"D","1">>), Some(<<"1">>), Some(<<"0",".","0","5">>), Some(<<"1","0">>), Absent)

(* 0.1 x 0.05 taxed at 100 %: half a cent before tax, half a cent of tax *)
Item2 == Item(Some(<<"P","2">>), Some(<<"D"," ","2">>), Some(<<" ","0",".","1">>), Some(<<".","0","5">>), Some(<<"1","0","0">>),
              Some(<<"p","c","e">>))

(* 10 x 25.50, no tax_rate key *)
Item3 == Item(Some(<<"P","3">>), Some(<<"D","3">>), Some(<<"1","0">>), Some(<<"2","5",".","5","0">>), Absent, Absent)

GoodItems == {Item1, Item2, Item3}

(* a negative number and a string that is no number *)
BadNumbers == {<<"-","1">>, <<"1","x">>}

(* Item1 without the key price *)
NoPriceItem == [Item1 EXCEPT !.price = Absent]

BadItems ==
    {[Item1 EXCEPT ![f] = Some(v)] : f \in {"quantity", "price", "tax_rate"}, v \in BadNumbers}
    \cup {NoPriceItem}

(* n times the character c *)
Repeat(c, n) == [i \in 1..n |-> c]

(* a product code of one character more than MAX_PRODUCT_CODE_LENGTH *)
LongCodeItem ==
    [Item3 EXCEPT !.product_code = Some(Repeat("P", MAX_PRODUCT_CODE_LENGTH + 1))]

(* a description of one character more than MAX_DESCRIPTION_LENGTH *)
LongDescriptionItem ==
    [Item3 EXCEPT !.description = Some(Repeat("D", MAX_DESCRIPTION_LENGTH + 1))]

(* a product code and a description of the greatest lengths, the product
   code with a space inside and blanks around it *)
FullItem ==
    [Item3 EXCEPT
        !.product_code = Some(<<" ">> \o Repeat("P", MAX_PRODUCT_CODE_LENGTH - 2)
                              \o <<" ", "P", " ">>),
        !.description  = Some(Repeat("D", MAX_DESCRIPTION_LENGTH))]

LongItems == {LongCodeItem, LongDescriptionItem}

(* the sequences over S of length at most n *)
SeqsUpTo(S, n) == UNION {[1..k -> S] : k \in 0..n}

(* the lists s with one element replaced by an element of B *)
OneReplaced(lists, B) ==
    UNION {{[s EXCEPT ![i] = b] : i \in 1..Len(s), b \in B} : s \in lists}

(* the party lists: every list of at most MaxParties good parties, and the
   lists of buyers and suppliers with one party replaced by a bad one *)
PartyLists ==
    SeqsUpTo(GoodParties, MaxParties)
    \cup OneReplaced(SeqsUpTo({BuyerParty, SupplierParty}, MaxParties), BadParties)

(* the item lists: every list of at most MaxItems good items, the lists of
   Item3 with one item replaced by a bad or an over-long one, and the item
   of the greatest lengths alone and after Item1 *)
ItemLists ==
    SeqsUpTo(GoodItems, MaxItems)
    \cup OneReplaced(SeqsUpTo({Item3}, MaxItems), BadItems \cup LongItems)
    \cup {<<FullItem>>, <<Item1, FullItem>>}

PaymentTerms(due_date, method) == [due_date |-> due_date, method |-> method]

(* the file argument, the force flag, and whether the path exists *)
Save(filename, force, exists) == [filename |-> filename, force |-> force, exists |-> exists]

ThePath == <<"o","u","t",".","e","d","i">>

BaseCall ==
    [message_ref    |-> Some(<<"M","1">>),
     invoice_number |-> Some(<<"N","1">>),
     invoice_date   |-> Some(<<"2","0","2","5","0","3","2","2">>),
     currency       |-> Absent,
     reference      |-> Absent,
     parties        |-> Some(<<BuyerParty, SupplierParty>>),
     items          |-> Some(<<Item1>>),
     payment_terms  |-> Absent,
     save           |-> Save(Absent, FALSE, FALSE),
     interchange_control_ref |-> Absent,
     application_ref |-> Absent]

(* the record of the example scenario: one buyer, one supplier, one item of
   10 x 25.50 taxed at 20 % *)
ExampleItem ==
    Item(Some(<<"A","B","C","1","2","3">>), Some(<<"P","r","e","m","i","u","m"," ","W","i","d","g","e","t">>), Some(<<"1","0">>), Some(<<"2","5",".","5","0">>),
         Some(<<"2","0">>), Absent)

ExampleCall ==
    [BaseCall EXCEPT
        !.message_ref    = Some(<<"7","8","9","1","2","3">>),
        !.invoice_number = Some(<<"I","N","V","2","0","2","5","0","0","1">>),
        !.parties        = Some(<<Party(Some(<<"B","Y">>), Some(<<"1","2","3","4","5","6","7","8","9">>), Absent, Absent, Absent, Absent),
                                  Party(Some(<<"S","U">>), Some(<<"9","8","7","6","5","4","3","2","1">>), Absent, Absent, Absent, Absent)>>),
        !.items          = Some(<<ExampleItem>>)]

CallFields ==
    <<"message_ref", "invoice_number", "invoice_date", "currency", "reference",
      "parties", "items", "payment_terms", "save", "interchange_control_ref",
      "application_ref">>

Pool(f) ==
    CASE f = "message_ref" ->
            {Absent, Some(<<>>), Some(<<"M","+">>), Some(<<" ","M"," ","1"," ">>),
             Some(<<"M","\n","1">>), Some(<<"M","\t","1">>)}
      [] f = "invoice_number" ->
            {Absent, Some(<<>>), Some(<<" ">>), Some(<<"N","?","+">>)}
      [] f = "invoice_date" ->
            {Some(<<"2","0","2","5">>), Some(<<"2","0","2","5","0","2","3","0">>), Some(<<"2","0","2","5","0","3","2">>)}
      [] f = "currency" ->
            {Some(<<"E","U","R">>), Some(<<"e","u","r">>), Some(<<"X","X","X">>)}
      [] f = "reference" ->
            {Some(<<"R"," ","1">>), Some(<<"R","+">>), Some(<<" ">>)}
      [] f = "parties" ->
            {Some(s) : s \in PartyLists}
      [] f = "items" ->
            {Some(s) : s \in ItemLists}
      [] f = "payment_terms" ->
            {Some(PaymentTerms(Some(<<"2","0","2","5","0","4","2","2">>), Absent)),
             Some(PaymentTerms(Some(<<"2","0","2","5","0","4","2","2">>), Some(<<"1","0">>))),
             Some(PaymentTerms(Some(<<"2","0","2","5">>), Some(<<"5">>))),
             Some(PaymentTerms(Absent, Some(<<"7">>))),
             Some(PaymentTerms(Absent, Some(<<"1","0">>)))}
      [] f = "save" ->
            {Save(Some(ThePath), FALSE, FALSE), Save(Some(ThePath), FALSE, TRUE),
             Save(Some(ThePath), TRUE, TRUE)}
      [] f = "interchange_control_ref" ->
            {Some(<<"I","+","1">>)}
      [] f = "application_ref" ->
            {Some(<<"A","P">>)}

(* the party lists and item lists that occur together with another
   replaced field *)
FewParties ==
    {<<>>, <<BuyerParty>>, <<SupplierParty, BuyerParty>>, <<BuyerParty, UnknownParty>>,
     <<NoQualifierParty, SupplierParty>>, <<BuyerParty, SupplierParty, InvoiceeParty>>}

FewItems ==
    {<<>>, <<Item2>>, <<Item3, Item1>>} \cup {<<b>> : b \in BadItems}

Few(f) ==
    CASE f = "parties" -> {Some(s) : s \in FewParties}
      [] f = "items" -> {Some(s) : s \in FewItems}
      [] OTHER -> Pool(f)

(* the choices <<k, v>>: field number k takes the value v of its pool *)
Choices == UNION {{<<k, v>> : v \in Pool(CallFields[k])} : k \in 1..Len(CallFields)}

FewChoices == UNION {{<<k, v>> : v \in Few(CallFields[k])} : k \in 1..Len(CallFields)}

Calls ==
    {BaseCall, ExampleCall}
    \cup {[BaseCall EXCEPT ![CallFields[c[1]]] = c[2]] : c \in Choices}
    \cup UNION {{[BaseCall EXCEPT ![CallFields[c[1]]] = c[2], ![CallFields[d[1]]] = d[2]] :
                    d \in {x \in FewChoices : x[1] > c[1]}} : c \in FewChoices}

(* the invoice record of a call: the data argument *)
DataOf(call) ==
    [f \in {"message_ref", "invoice_number", "invoice_date", "currency", "reference",
            "parties", "items", "payment_terms"} |-> call[f]]

(* the content of the file at ThePath before the first call, when it exists *)
OldContent == <<"o","l","d">>

(* the arguments of no call of sanitize_value *)
NoSanitize == [value |-> None, uppercase |-> FALSE, max_length |-> Absent]

(* the minutes at which datetime.now() may be read *)
Minutes == {0, 1}

---------------------------------------------------------------------------
(* The state *)

VARIABLES
    data,           \* the invoice record passed to generate_invoic
    args,           \* filename, force, interchange_control_ref, application_ref
    config,         \* the separators the generator was constructed with
    pc,             \* the statement of generate_invoic the call is at
    buffer,         \* the strings written to the StringIO buffer, in order
    segment_count,  \* the local counter of generate_invoic
    total_amount,   \* returned by _process_items
    total_tax,      \* returned by _process_items
    edifact_message, \* buffer.getvalue()
    result,         \* the value the call returned, when it has returned
    error,          \* the exception the call raised, NoError when none
    fs,             \* the content of the file at ThePath, Absent when no file
    clock,          \* the last reading of datetime.now(), in minutes
    calls,          \* the number of calls started
    returned,       \* result and error of each earlier call
    escIn,          \* argument of a direct call of _escape_segment_value
    escOut,         \* its results so far: of escIn, then of the first result
    sanIn,          \* arguments of a direct call of sanitize_value
    sanOut,         \* its result, when it has returned
    other           \* the locals of a second call in progress, Absent when none

vars == <<data, args, config, pc, buffer, segment_count, total_amount, total_tax,
          edifact_message, result, error, fs, clock, calls, returned, escIn, escOut, sanIn, sanOut, other>>

(* the locals of generate_invoic before its first statement *)
FreshCall ==
    /\ pc = "validate"
    /\ buffer = <<>>
    /\ segment_count = 0
    /\ total_amount = Dec(0, 0, 2)
    /\ total_tax = Dec(0, 0, 2)
    /\ edifact_message = <<>>
    /\ result = Absent
    /\ error = NoError

(* the record, the arguments and the file system a call starts from *)
ArgsOf(call) ==
    [filename |-> call.save.filename, force |-> call.save.force,
     interchange_control_ref |-> call.interchange_control_ref,
     application_ref |-> call.application_ref]

StartOf(call) ==
    /\ data = DataOf(call)
    /\ args = ArgsOf(call)
    /\ fs = IF call.save.exists THEN Some(OldContent) ELSE Absent

Init ==
    /\ \E call \in Calls : StartOf(call)
    /\ config = DefaultConfig
    /\ FreshCall
    /\ clock = 0
    /\ calls = 1
    /\ returned = <<>>
    /\ escIn = <<>>
    /\ sanIn = NoSanitize
    /\ sanOut = Absent
    /\ escOut = Absent
    /\ other = Absent


---------------------------------------------------------------------------
(* generate_invoic, statement by statement *)

(* the segments are written and the counter goes up by one for the lot *)
WriteSegmentsCountedOnce(segments) ==
    /\ buffer' = buffer \o [i \in 1..Len(segments) |-> segments[i] \o <<"\n">>]
    /\ segment_count' = segment_count + 1

(* for each segment: buffer.write(f"{segment}\n"); segment_count += 1 *)
WriteSegments(segments) ==
    /\ buffer' = buffer \o [i \in 1..Len(segments) |-> segments[i] \o <<"\n">>]
    /\ segment_count' = segment_count + Len(segments)

(* an exception leaves generate_invoic: nothing is returned *)
Raise(err) ==
    /\ pc' = "failed"
    /\ error' = err

(* Continue with the exception swallowed: generate_invoic goes on to next
   whether the call raised or returned *)
ContinueAnyway(err, next) == pc' = next /\ UNCHANGED error

(* generate_invoic goes on after a call that raised err or returned *)
Continue(err, next) ==
    IF err # NoError THEN Raise(err) ELSE pc' = next /\ UNCHANGED error

(* self._validate_invoice_data(data, date_format) *)
Validate ==
    /\ pc = "validate"
    /\ Continue(validate_invoice_data(data), "UNB")
    /\ UNCHANGED <<data, args, config, buffer, segment_count, total_amount, total_tax,
                   edifact_message, result, fs, clock, calls, returned, escIn, escOut, sanIn, sanOut, other>>

(* the UNB segment; _generate_interchange_header reads datetime.now(), which
   is not before the last reading *)
AddInterchangeHeader ==
    /\ pc = "UNB"
    /\ \E t \in {m \in Minutes : m >= clock} :
          /\ clock' = t
          /\ WriteSegments(<<generate_interchange_header(config, data,
                                 args.interchange_control_ref, args.application_ref, t)>>)
    /\ pc' = "UNH"
    /\ UNCHANGED <<data, args, config, total_amount, total_tax, edifact_message,
                   result, error, fs, calls, returned, escIn, escOut, sanIn, sanOut, other>>

AddMessageHeader ==
    /\ pc = "UNH"
    /\ WriteSegments(<<generate_message_header(config, data)>>)
    /\ pc' = "BGM"
    /\ UNCHANGED <<data, args, config, total_amount, total_tax, edifact_message,
                   result, error, fs, clock, calls, returned, escIn, escOut, sanIn, sanOut, other>>

AddBeginningOfMessage ==
    /\ pc = "BGM"
    /\ WriteSegments(<<BgmSegment(config, data)>>)
    /\ pc' = "DTM"
    /\ UNCHANGED <<data, args, config, total_amount, total_tax, edifact_message,
                   result, error, fs, clock, calls, returned, escIn, escOut, sanIn, sanOut, other>>

AddDate ==
    /\ pc = "DTM"
    /\ WriteSegments(<<DtmSegment(config, data)>>)
    /\ pc' = "CUX"
    /\ UNCHANGED <<data, args, config, total_amount, total_tax, edifact_message,
                   result, error, fs, clock, calls, returned, escIn, escOut, sanIn, sanOut, other>>

(* if "currency" in data *)
AddCurrency ==
    /\ pc = "CUX"
    /\ WriteSegments(IF Has(data.currency) THEN <<CuxSegment(config, data)>> ELSE <<>>)
    /\ pc' = "RFF"
    /\ UNCHANGED <<data, args, config, total_amount, total_tax, edifact_message,
                   result, error, fs, clock, calls, returned, escIn, escOut, sanIn, sanOut, other>>

(* if "reference" in data *)
AddReference ==
    /\ pc = "RFF"
    /\ WriteSegments(IF Has(data.reference) THEN <<RffSegment(config, data)>> ELSE <<>>)
    /\ pc' = "NAD"
    /\ UNCHANGED <<data, args, config, total_amount, total_tax, edifact_message,
                   result, error, fs, clock, calls, returned, escIn, escOut, sanIn, sanOut, other>>

(* the segments r.segments are written, unless the call that made them raised *)
WriteResult(r, next) ==
    /\ Continue(r.error, next)
    /\ WriteSegments(IF r.error # NoError THEN <<>> ELSE r.segments)

(* for segment in self._generate_party_segments(data["parties"]) *)
AddParties ==
    /\ pc = "NAD"
    /\ WriteResult(generate_party_segments(config, Get(data.parties)), "LIN")
    /\ UNCHANGED <<data, args, config, total_amount, total_tax, edifact_message,
                   result, fs, clock, calls, returned, escIn, escOut, sanIn, sanOut, other>>

(* the totals _process_items returned are kept *)
KeepTotals(r) ==
    /\ total_amount' = IF r.error # NoError THEN total_amount ELSE r.total_amount
    /\ total_tax' = IF r.error # NoError THEN total_tax ELSE r.total_tax

ItemsDone(r) == WriteResult(r, "MOA") /\ KeepTotals(r)

(* total_amount, total_tax, item_segments = self._process_items(data["items"])
   and the loop that writes item_segments *)
AddItems ==
    /\ pc = "LIN"
    /\ ItemsDone(process_items(config, Get(data.items)))
    /\ UNCHANGED <<data, args, config, edifact_message, result, fs, clock, calls,
                   returned, escIn, escOut, sanIn, sanOut, other>>

(* for segment in self._generate_monetary_segments(total_amount, total_tax) *)
AddMonetaryTotals ==
    /\ pc = "MOA"
    /\ WriteSegments(generate_monetary_segments(config, total_amount, total_tax))
    /\ pc' = "PAT"
    /\ UNCHANGED <<data, args, config, total_amount, total_tax, edifact_message,
                   result, error, fs, clock, calls, returned, escIn, escOut, sanIn, sanOut, other>>

(* if "payment_terms" in data *)
AddPaymentTerms ==
    /\ pc = "PAT"
    /\ WriteSegments(IF Has(data.payment_terms)
                     THEN generate_payment_segments(config, Get(data.payment_terms))
                     ELSE <<>>)
    /\ pc' = "UNT"
    /\ UNCHANGED <<data, args, config, total_amount, total_tax, edifact_message,
                   result, error, fs, clock, calls, returned, escIn, escOut, sanIn, sanOut, other>>

AddMessageTrailer ==
    /\ pc = "UNT"
    /\ WriteSegments(<<UntSegment(config, data, segment_count)>>)
    /\ pc' = "UNZ"
    /\ UNCHANGED <<data, args, config, total_amount, total_tax, edifact_message,
                   result, error, fs, clock, calls, returned, escIn, escOut, sanIn, sanOut, other>>

AddInterchangeTrailer ==
    /\ pc = "UNZ"
    /\ WriteSegments(<<UnzSegment(config, data, args.interchange_control_ref)>>)
    /\ pc' = "getvalue"
    /\ UNCHANGED <<data, args, config, total_amount, total_tax, edifact_message,
                   result, error, fs, clock, calls, returned, escIn, escOut, sanIn, sanOut, other>>

(* the concatenation of the strings written *)
RECURSIVE Concat(_)
Concat(chunks) == IF chunks = <<>> THEN <<>> ELSE Head(chunks) \o Concat(Tail(chunks))

(* edifact_message = buffer.getvalue(); buffer.close(); if filename: *)
GetValue ==
    /\ pc = "getvalue"
    /\ edifact_message' = Concat(buffer)
    /\ pc' = IF Has(args.filename) /\ Get(args.filename) # <<>> THEN "save" ELSE "return"
    /\ UNCHANGED <<data, args, config, buffer, segment_count, total_amount, total_tax,
                   result, error, fs, clock, calls, returned, escIn, escOut, sanIn, sanOut, other>>

(* what open(filename, "w") and f.write(content) can do to the file *)
WriteOutcomes == {"written", "open fails", "write fails"}

(* _save_to_file without the test for an existing file *)
SaveToFileUnchecked ==
    /\ pc = "save"
    /\ pc' = "write"
    /\ UNCHANGED <<data, args, config, buffer, segment_count, total_amount, total_tax,
                   edifact_message, result, error, fs, clock, calls, returned, escIn, escOut,
                   sanIn, sanOut, other>>

(* self._save_to_file(edifact_message, filename, file_encoding, force), up to
   its first statement: if not force and os.path.exists(filename): raise *)
SaveToFile ==
    /\ pc = "save"
    /\ IF ~args.force /\ Has(fs)
       THEN Raise(GeneratorError("File exists. Use --force to overwrite.", "", 0))
       ELSE pc' = "write" /\ UNCHANGED error
    /\ UNCHANGED <<data, args, config, buffer, segment_count, total_amount, total_tax,
                   edifact_message, result, fs, clock, calls, returned, escIn, escOut,
                   sanIn, sanOut, other>>

(* with open(filename, "w", encoding=encoding) as f: f.write(content) *)
OpenAndWrite ==
    /\ pc = "write"
    /\ \E outcome \in WriteOutcomes :
          IF outcome = "written"
          THEN fs' = Some(edifact_message) /\ pc' = "return" /\ UNCHANGED error
          ELSE /\ Raise(GeneratorError("File write error", "", 0))
               /\ fs' = IF outcome = "open fails" THEN fs ELSE Some(<<>>)
    /\ UNCHANGED <<data, args, config, buffer, segment_count, total_amount, total_tax,
                   edifact_message, result, clock, calls, returned, escIn, escOut,
                   sanIn, sanOut, other>>

(* return edifact_message *)
Return ==
    /\ pc = "return"
    /\ result' = Some(edifact_message)
    /\ pc' = "done"
    /\ UNCHANGED <<data, args, config, buffer, segment_count, total_amount, total_tax,
                   edifact_message, error, fs, clock, calls, returned, escIn, escOut, sanIn, sanOut, other>>

(* the caller calls generate_invoic again, on the same generator, with the
   same record and arguments *)
CallAgain ==
    /\ pc \in {"done", "failed"}
    /\ calls < MaxCalls
    /\ calls' = calls + 1
    /\ returned' = Append(returned, [result |-> result, error |-> error])
    /\ pc' = "validate"
    /\ buffer' = <<>>
    /\ segment_count' = 0
    /\ total_amount' = Dec(0, 0, 2)
    /\ total_tax' = Dec(0, 0, 2)
    /\ edifact_message' = <<>>
    /\ result' = Absent
    /\ error' = NoError
    /\ UNCHANGED <<data, args, config, fs, clock, escIn, escOut, sanIn, sanOut, other>>

Next ==
    \/ Validate
    \/ AddInterchangeHeader
    \/ AddMessageHeader
    \/ AddBeginningOfMessage
    \/ AddDate
    \/ AddCurrency
    \/ AddReference
    \/ AddParties
    \/ AddItems
    \/ AddMonetaryTotals
    \/ AddPaymentTerms
    \/ AddMessageTrailer
    \/ AddInterchangeTrailer
    \/ GetValue
    \/ SaveToFile
    \/ OpenAndWrite
    \/ Return

(* one call of generate_invoic *)
Spec == Init /\ [][Next]_vars

(* the calls that differ from BaseCall in at most one field *)
SingleCalls ==
    {BaseCall} \cup {[BaseCall EXCEPT ![CallFields[c[1]]] = c[2]] : c \in Choices}

InitRepeat ==
    /\ \E call \in SingleCalls : StartOf(call)
    /\ config = DefaultConfig
    /\ FreshCall
    /\ clock = 0
    /\ calls = 1
    /\ returned = <<>>
    /\ escIn = <<>>
    /\ sanIn = NoSanitize
    /\ sanOut = Absent
    /\ escOut = Absent
    /\ other = Absent

NextRepeat == Next \/ CallAgain

(* up to MaxCalls calls, one after the other, with the same record and
   arguments *)
SpecRepeat == InitRepeat /\ [][NextRepeat]_vars

---------------------------------------------------------------------------
(* Direct calls of _escape_segment_value on the strings over a small
   alphabet that holds every character the escaper treats specially *)

EscapeAlphabet == {"A", "+", ":", "'", "?", " "}

(* the string A+B:C'D *)
EscapeExample == <<"A","+","B",":","C","'","D">>

EscapeInputs == SeqsUpTo(EscapeAlphabet, MaxLen) \cup {EscapeExample}

InitEscape ==
    /\ escIn \in EscapeInputs
    /\ sanIn = NoSanitize
    /\ sanOut = Absent
    /\ escOut = Absent
    /\ other = Absent
    /\ config = DefaultConfig
    /\ data = DataOf(BaseCall)
    /\ args = [filename |-> Absent, force |-> FALSE,
               interchange_control_ref |-> Absent, application_ref |-> Absent]
    /\ fs = Absent
    /\ pc = "escape"
    /\ buffer = <<>>
    /\ segment_count = 0
    /\ total_amount = Dec(0, 0, 2)
    /\ total_tax = Dec(0, 0, 2)
    /\ edifact_message = <<>>
    /\ result = Absent
    /\ error = NoError
    /\ clock = 0
    /\ calls = 0
    /\ returned = <<>>

EscapeCall ==
    /\ pc = "escape"
    /\ escOut = Absent
    /\ escOut' = Some(escape_segment_value(config, escIn))
    /\ UNCHANGED <<data, args, config, pc, buffer, segment_count, total_amount,
                   total_tax, edifact_message, result, error, fs, clock, calls,
                   returned, escIn, sanIn, sanOut, other>>

(* _escape_segment_value applied to its own result *)
EscapeAgain ==
    /\ pc = "escape"
    /\ Len(escOut) = 1
    /\ escOut' = Append(escOut, escape_segment_value(config, escOut[1]))
    /\ UNCHANGED <<data, args, config, pc, buffer, segment_count, total_amount,
                   total_tax, edifact_message, result, error, fs, clock, calls,
                   returned, escIn, sanIn, sanOut, other>>

NextEscape == EscapeCall \/ EscapeAgain

SpecEscape == InitEscape /\ [][NextEscape]_vars

---------------------------------------------------------------------------
(* Direct calls of _escape_segment_value on generators constructed with
   other separators: the tilde as terminator or as a separator, and the
   default separators swapped *)

Config(data_separator, component_separator, segment_terminator) ==
    [data_separator |-> data_separator, component_separator |-> component_separator,
     segment_terminator |-> segment_terminator]

Configs ==
    {DefaultConfig, Config("+", ":", "~"), Config("~", ":", "'"), Config("+", "~", "'"),
     Config(":", "+", "'")}

ConfiguredAlphabet == {"A", "+", ":", "'", "?", "~"}

ConfiguredInputs == SeqsUpTo(ConfiguredAlphabet, MaxLen)

InitConfigured ==
    /\ config \in Configs
    /\ escIn \in ConfiguredInputs
    /\ escOut = Absent
    /\ other = Absent
    /\ sanIn = NoSanitize
    /\ sanOut = Absent
    /\ data = DataOf(BaseCall)
    /\ args = [filename |-> Absent, force |-> FALSE,
               interchange_control_ref |-> Absent, application_ref |-> Absent]
    /\ fs = Absent
    /\ pc = "escape"
    /\ buffer = <<>>
    /\ segment_count = 0
    /\ total_amount = Dec(0, 0, 2)
    /\ total_tax = Dec(0, 0, 2)
    /\ edifact_message = <<>>
    /\ result = Absent
    /\ error = NoError
    /\ clock = 0
    /\ calls = 0
    /\ returned = <<>>

SpecConfigured == InitConfigured /\ [][NextEscape]_vars

---------------------------------------------------------------------------
(* Direct calls of sanitize_value: the value None or a string of lower-case
   letters, upper-case letters and blanks, uppercase False or True,
   max_length None or a length from 0 *)

SanitizeAlphabet == {"a", "B", " "}

SanitizeValues == {None} \cup SeqsUpTo(SanitizeAlphabet, MaxLen)

SanitizeLengths == {Absent} \cup {Some(n) : n \in 0..MaxLen}

SanitizeInputs ==
    [value : SanitizeValues, uppercase : BOOLEAN, max_length : SanitizeLengths]

InitSanitize ==
    /\ sanIn \in SanitizeInputs
    /\ sanOut = Absent
    /\ escIn = <<>>
    /\ escOut = Absent
    /\ other = Absent
    /\ config = DefaultConfig
    /\ data = DataOf(BaseCall)
    /\ args = [filename |-> Absent, force |-> FALSE,
               interchange_control_ref |-> Absent, application_ref |-> Absent]
    /\ fs = Absent
    /\ pc = "sanitize"
    /\ buffer = <<>>
    /\ segment_count = 0
    /\ total_amount = Dec(0, 0, 2)
    /\ total_tax = Dec(0, 0, 2)
    /\ edifact_message = <<>>
    /\ result = Absent
    /\ error = NoError
    /\ clock = 0
    /\ calls = 0
    /\ returned = <<>>

SanitizeCall ==
    /\ pc = "sanitize"
    /\ sanOut = Absent
    /\ sanOut' = Some(sanitize_value(sanIn.value, sanIn.uppercase, sanIn.max_length))
    /\ UNCHANGED <<data, args, config, pc, buffer, segment_count, total_amount,
                   total_tax, edifact_message, result, error, fs, clock, calls,
                   returned, escIn, escOut, sanIn, other>>

NextSanitize == SanitizeCall

SpecSanitize == InitSanitize /\ [][NextSanitize]_vars

---------------------------------------------------------------------------
(* Two calls of generate_invoic in progress at once, on threads of one
   process: each has its own record, arguments and locals; the generator's
   separators, the file system and the clock are the same for both.  The
   interpreter can suspend the running thread between any two statements. *)

(* the record, the arguments and the locals of the running call *)
Locals ==
    [data |-> data, args |-> args, pc |-> pc, buffer |-> buffer,
     segment_count |-> segment_count, total_amount |-> total_amount,
     total_tax |-> total_tax, edifact_message |-> edifact_message,
     result |-> result, error |-> error]

(* the locals of a call of generate_invoic before its first statement *)
FreshLocals(call) ==
    [data |-> DataOf(call), args |-> ArgsOf(call), pc |-> "validate", buffer |-> <<>>,
     segment_count |-> 0, total_amount |-> Dec(0, 0, 2), total_tax |-> Dec(0, 0, 2),
     edifact_message |-> <<>>, result |-> Absent, error |-> NoError]

(* the running call is suspended and the second one goes on, as if the
   counter were kept on the generator and not in the call *)
SwitchSharingCounter ==
    /\ Has(other)
    /\ other' = Some(Locals)
    /\ data' = Get(other).data
    /\ args' = Get(other).args
    /\ pc' = Get(other).pc
    /\ buffer' = Get(other).buffer
    /\ total_amount' = Get(other).total_amount
    /\ total_tax' = Get(other).total_tax
    /\ edifact_message' = Get(other).edifact_message
    /\ result' = Get(other).result
    /\ error' = Get(other).error
    /\ UNCHANGED <<segment_count, config, fs, clock, calls, returned, escIn, escOut,
                   sanIn, sanOut>>

(* the running call is suspended and the second one goes on where it was *)
Switch ==
    /\ Has(other)
    /\ other' = Some(Locals)
    /\ data' = Get(other).data
    /\ args' = Get(other).args
    /\ pc' = Get(other).pc
    /\ buffer' = Get(other).buffer
    /\ segment_count' = Get(other).segment_count
    /\ total_amount' = Get(other).total_amount
    /\ total_tax' = Get(other).total_tax
    /\ edifact_message' = Get(other).edifact_message
    /\ result' = Get(other).result
    /\ error' = Get(other).error
    /\ UNCHANGED <<config, fs, clock, calls, returned, escIn, escOut, sanIn, sanOut>>

SavedTo(call) == [call EXCEPT !.save = Save(Some(ThePath), FALSE, FALSE)]

TwoItemCall ==
    [BaseCall EXCEPT !.items = Some(<<Item1, Item2>>),
                     !.currency = Some(<<"E","U","R">>),
                     !.interchange_control_ref = Some(<<"I","+","1">>)]

OneBuyerCall == [BaseCall EXCEPT !.parties = Some(<<BuyerParty>>)]

BadItemCall == [ExampleCall EXCEPT !.items = Some(<<Item1, NoPriceItem>>)]

(* the pairs of calls in progress at once: without a file, both saving to
   ThePath without force, one of them overwriting, one of them rejected *)
TwoCalls ==
    {<<BaseCall, ExampleCall>>,
     <<SavedTo(BaseCall), SavedTo(ExampleCall)>>,
     <<SavedTo(TwoItemCall), [ExampleCall EXCEPT !.save = Save(Some(ThePath), TRUE, FALSE)]>>,
     <<TwoItemCall, OneBuyerCall>>,
     <<BadItemCall, TwoItemCall>>}

InitTwoCalls ==
    /\ \E pair \in TwoCalls :
          /\ StartOf(pair[1])
          /\ other = Some(FreshLocals(pair[2]))
    /\ config = DefaultConfig
    /\ FreshCall
    /\ clock = 0
    /\ calls = 2
    /\ returned = <<>>
    /\ escIn = <<>>
    /\ sanIn = NoSanitize
    /\ sanOut = Absent
    /\ escOut = Absent

NextTwoCalls == Next \/ Switch

(* two calls, their statements interleaved in every order *)
SpecTwoCalls == InitTwoCalls /\ [][NextTwoCalls]_vars

---------------------------------------------------------------------------
(* Reading the output: the strings written to the buffer are the segments
   of the message, one per string, each ending in the terminator and "\n" *)

SegmentTag(chunk) == SubSeq(chunk, 1, 3)

Tags(chunks) == [i \in 1..Len(chunks) |-> SegmentTag(chunks[i])]

HasPrefix(s, prefix) == Len(s) >= Len(prefix) /\ SubSeq(s, 1, Len(prefix)) = prefix

RECURSIVE LeadingDigits(_)
LeadingDigits(s) ==
    IF s # <<>> /\ IsDigit(Head(s)) THEN <<Head(s)>> \o LeadingDigits(Tail(s)) ELSE <<>>

(* the number printed as the first data element of a segment *)
FirstElementNumber(chunk) == DigitsVal(LeadingDigits(SubSeq(chunk, 5, Len(chunk))))

(* the amounts printed in the MOA segments with the given qualifier, in the
   order of the segments *)
MoaPrefix(qualifier) == SEGMENT_MOA \o <<"+">> \o qualifier \o <<":">>

MoaAmountOf(chunk, qualifier) == SubSeq(chunk, Len(MoaPrefix(qualifier)) + 1, Len(chunk) - 2)

MoaAmounts(qualifier) ==
    LET chunks == SelectSeq(buffer, LAMBDA c : HasPrefix(c, MoaPrefix(qualifier)))
    IN  [i \in 1..Len(chunks) |-> MoaAmountOf(chunks[i], qualifier)]

MinOf(S) == CHOOSE k \in S : \A j \in S : k <= j

(* the call is over or has not got past validation *)
StoppedAtValidation ==
    /\ pc \in {"validate", "failed"}
    /\ buffer = <<>>
    /\ segment_count = 0
    /\ edifact_message = <<>>
    /\ result = Absent
    /\ fs \in {Absent, Some(OldContent)}

---------------------------------------------------------------------------
(* The message trailer *)

(* C1: the segment count printed in the UNT segment equals the number of
   segments from the UNB segment through the UNT segment inclusive. *)
C1_TrailerCountsHeaderThroughTrailer ==
    \A i \in 1..Len(buffer) :
        SegmentTag(buffer[i]) = SEGMENT_UNT =>
            LET unb == CHOOSE j \in 1..i : SegmentTag(buffer[j]) = SEGMENT_UNB
            IN  FirstElementNumber(buffer[i]) = i - unb + 1

---------------------------------------------------------------------------
(* Validation before output *)

(* C2: a record that validation rejects never gets the call past validation:
   no segment is written to the buffer, no message is returned, and the file
   holds what it held before the call (or is still not there). *)
C2_ValidationFailureWritesNothing ==
    validate_invoice_data(data) # NoError => StoppedAtValidation

(* a call with a file name that failed in validation *)
C2_Witness ==
    /\ pc = "failed"
    /\ error # NoError
    /\ error = validate_invoice_data(data)
    /\ Has(args.filename)
    /\ StoppedAtValidation

---------------------------------------------------------------------------
(* The order of the segments *)

(* the segments of one item group *)
ItemTags(item) ==
    <<SEGMENT_LIN, SEGMENT_IMD, SEGMENT_QTY, SEGMENT_PRI>>
        \o (IF DecPositive(ItemDecimal(item, "tax_rate"))
            THEN <<SEGMENT_TAX, SEGMENT_MOA>> ELSE <<>>)

BodyTags(d) ==
    <<SEGMENT_UNB, SEGMENT_UNH, SEGMENT_BGM, SEGMENT_DTM>>
        \o (IF Has(d.currency) THEN <<SEGMENT_CUX>> ELSE <<>>)
        \o (IF Has(d.reference) THEN <<SEGMENT_RFF>> ELSE <<>>)
        \o [i \in 1..Len(Get(d.parties)) |-> SEGMENT_NAD]
        \o Concat([i \in 1..Len(Get(d.items)) |-> ItemTags(Get(d.items)[i])])
        \o <<SEGMENT_MOA, SEGMENT_MOA, SEGMENT_MOA>>
        \o (IF Has(d.payment_terms) /\ Has(Get(d.payment_terms).due_date)
            THEN <<SEGMENT_PAT, SEGMENT_DTM>> ELSE <<>>)
        \o <<SEGMENT_UNT, SEGMENT_UNZ>>

(* C3: the segments of a generated message are, in this order, UNA, UNB, UNH,
   BGM, DTM, CUX if there is a currency, RFF if there is a reference, a NAD
   per party, a group LIN IMD QTY PRI (TAX MOA) per item, three MOA, PAT and
   DTM if there are payment terms, UNT, UNZ. *)
C3_SegmentOrder ==
    pc = "done" => Tags(buffer) = <<SEGMENT_UNA>> \o BodyTags(data)

---------------------------------------------------------------------------
(* Escaping *)

(* in s, read from the left, a release character takes the character after
   it, and no delimiter is left over *)
RECURSIVE NoBareDelimiter(_)
NoBareDelimiter(s) ==
    IF s = <<>> THEN TRUE
    ELSE IF Head(s) = "?" THEN Len(s) >= 2 /\ NoBareDelimiter(SubSeq(s, 3, Len(s)))
    ELSE Head(s) \notin {"+", ":", "'"} /\ NoBareDelimiter(Tail(s))

(* C4: the result of _escape_segment_value has no bare "+", ":" or "'":
   each of them comes right after a release character "?" that is not itself
   escaped. *)
C4_NoBareDelimiter ==
    Has(escOut) => NoBareDelimiter(Get(escOut))

(* the example A+B:C'D, escaped *)
C4_Witness ==
    /\ escIn = <<"A","+","B",":","C","'","D">>
    /\ escOut = Some(<<"A","?","+","B","?",":","C","?","'","D">>)


---------------------------------------------------------------------------
(* The totals.  Amounts are compared as whole numbers of millionths, which
   holds every product of a quantity, a price and a rate of the inputs
   exactly. *)

(* the non-negative decimal a in millionths *)
Millionths(a) == a.coef * Pow10(6 - a.exp)

(* u millionths rounded to hundredths, ties to the even one *)
HalfEvenCents(u) ==
    IF u % 10000 > 5000 \/ (u % 10000 = 5000 /\ (u \div 10000) % 2 = 1)
    THEN (u \div 10000) + 1
    ELSE u \div 10000

(* price x quantity of an item, in millionths *)
LineMillionths(item) ==
    (Millionths(ItemDecimal(item, "price")) * ItemDecimal(item, "quantity").coef)
        \div Pow10(ItemDecimal(item, "quantity").exp)

(* line total x tax_rate / 100 of an item, in millionths *)
TaxMillionths(item) ==
    ((LineMillionths(item) \div 100) * ItemDecimal(item, "tax_rate").coef)
        \div Pow10(ItemDecimal(item, "tax_rate").exp)

Taxed(item) == ItemDecimal(item, "tax_rate").coef > 0

RECURSIVE SumOver(_, _)
SumOver(amounts, n) == IF n = 0 THEN 0 ELSE SumOver(amounts, n - 1) + amounts[n]

(* the tax of each item of the record, unrounded *)
ItemTaxes(d) == [i \in 1..Len(Get(d.items)) |-> TaxMillionths(Get(d.items)[i])]

(* the tax of each item of the record, rounded to hundredths *)
ItemTaxCents(d) == [i \in 1..Len(Get(d.items)) |-> HalfEvenCents(TaxMillionths(Get(d.items)[i]))]

(* C5: the amount printed in the MOA 9 segment is the sum of total_amount
   and total_tax, added exactly and then rounded to two decimals. *)
C5_GrandTotalIsRoundedExactSum ==
    \A i \in 1..Len(MoaAmounts(<<"9">>)) :
        MoaAmounts(<<"9">>)[i] =
            CentsStr(HalfEvenCents(Millionths(total_amount) + Millionths(total_tax)))

(* a message whose grand total is not the sum of the two totals as printed *)
C5_Witness ==
    /\ pc = "done"
    /\ Len(MoaAmounts(<<"9">>)) = 1
    /\ HalfEvenCents(Millionths(total_amount) + Millionths(total_tax))
           # HalfEvenCents(Millionths(total_amount)) + HalfEvenCents(Millionths(total_tax))

(* C6: the amount printed in the MOA 176 segment is the sum of the unrounded
   taxes of the items (line total x tax_rate / 100), rounded to two decimals
   once; the MOA 125 segments print the tax of each taxed item rounded to
   two decimals. *)
C6_TaxTotalRoundedOnOutput ==
    \A i \in 1..Len(MoaAmounts(<<"1","7","6">>)) :
        /\ MoaAmounts(<<"1","7","6">>)[i] =
               CentsStr(HalfEvenCents(SumOver(ItemTaxes(data), Len(Get(data.items)))))
        /\ MoaAmounts(<<"1","2","5">>) =
               [k \in 1..Len(SelectSeq(Get(data.items), Taxed)) |->
                   CentsStr(HalfEvenCents(TaxMillionths(SelectSeq(Get(data.items), Taxed)[k])))]

(* a message whose tax total is not the sum of the line taxes as printed *)
C6_Witness ==
    /\ pc = "done"
    /\ Len(MoaAmounts(<<"1","7","6">>)) = 1
    /\ Len(MoaAmounts(<<"1","2","5">>)) = 2
    /\ HalfEvenCents(SumOver(ItemTaxes(data), Len(Get(data.items))))
           # SumOver(ItemTaxCents(data), Len(Get(data.items)))

---------------------------------------------------------------------------
(* Generating twice *)

(* C7: a call that returns a message returns the message every earlier call
   with the same record and arguments returned. *)
C7_SameOutputEachCall ==
    \A k \in 1..Len(returned) :
        (pc = "done" /\ Has(returned[k].result)) => result = returned[k].result

---------------------------------------------------------------------------
(* Records that validation must reject *)

(* no party of the record is a buyer, or none is a supplier, the qualifiers
   read as the validator reads them (trimmed, in capitals) *)
LacksBuyerOrSupplier(d) ==
    \/ ~Has(d.parties)
    \/ \E q \in {<<"B","Y">>, <<"S","U">>} :
          \A i \in 1..Len(Get(d.parties)) :
              \/ ~Has(Get(d.parties)[i].qualifier)
              \/ sanitize_value(Get(Get(d.parties)[i].qualifier), TRUE, Absent) # q

(* C8: a record without a BY party or without an SU party does not get past
   validation, and no message is produced for it. *)
C8_BuyerAndSupplierRequired ==
    LacksBuyerOrSupplier(data) => StoppedAtValidation

(* a record rejected for the missing qualifier and nothing else *)
C8_Witness ==
    /\ pc = "failed"
    /\ LacksBuyerOrSupplier(data)
    /\ error = GeneratorError("Missing required party qualifiers", "parties", 0)
    /\ Get(data.parties) # <<>>

(* the text is not a number, or is a number below zero *)
BelowZeroOrNotANumber(num) == ~num.ok \/ (num.sign = 1 /\ num.coef > 0)

NegativeOrNotANumber(text) == BelowZeroOrNotANumber(ParseDecimal(Strip(text)))

HasBadNumber(d) ==
    /\ Has(d.items)
    /\ \E i \in 1..Len(Get(d.items)) : \E key \in {"quantity", "price", "tax_rate"} :
          /\ Has(Get(d.items)[i][key])
          /\ NegativeOrNotANumber(Get(Get(d.items)[i][key]))

(* C9: a record with an item whose quantity, price or tax_rate is negative
   or not a number does not get past validation: no segment is built. *)
C9_BadNumbersRejected ==
    HasBadNumber(data) => StoppedAtValidation

(* a record rejected for a number of an item *)
C9_Witness ==
    /\ pc = "failed"
    /\ HasBadNumber(data)
    /\ error.msg \in {"Item has invalid quantity", "Item has invalid price",
                      "Item has invalid tax_rate"}
    /\ buffer = <<>>


---------------------------------------------------------------------------
(* The order of the checks of _validate_invoice_data.  The checks are put in
   groups ("rules"); which rules a record violates is decided rule by rule,
   each on its own, and which rule an error belongs to is read off the
   error. *)

RequiredViolated(d) == RequiredError(d) # NoError

MessageRefViolated(d) == MessageRefError(d) # NoError

InvoiceDateViolated(d) == ~validate_date(Get(d.invoice_date))

PartiesViolated(d) ==
    QualifiersError(Get(d.parties)) # NoError \/ PartiesError(Get(d.parties)) # NoError

ItemsViolated(d) == ItemsError(Get(d.items)) # NoError

DueDateViolated(d) ==
    /\ Has(d.payment_terms)
    /\ Has(Get(d.payment_terms).due_date)
    /\ ~validate_date(Get(Get(d.payment_terms).due_date))

MethodViolated(d) ==
    /\ Has(d.payment_terms)
    /\ Has(Get(d.payment_terms).method)
    /\ sanitize_value(Get(Get(d.payment_terms).method), FALSE, Absent) \notin VALID_PAYMENT_METHODS

CurrencyViolated(d) == CurrencyError(d) # NoError

ReferenceViolated(d) == ReferenceError(d) # NoError

RequiredMessages == {"Missing required field", "Field cannot be empty"}

PartyMessages ==
    {"Missing required party qualifiers", "Each party must have 'qualifier' and 'id'",
     "Invalid party qualifier", "Party ID must be a non-empty string",
     "Invalid characters in party name", "Invalid country code"}

ItemMessages ==
    {"INVOIC must contain at least one item", "Item missing required field",
     "Invalid characters in product code", "Invalid characters in description",
     "Item product code exceeds maximum length", "Item description exceeds maximum length",
     "Item has invalid quantity", "Item has invalid price", "Item has invalid tax_rate",
     "Invalid characters in unit"}

ReferenceMessages == {"Reference cannot be empty", "Invalid characters in reference"}

IsPartyError(e) ==
    e.msg \in PartyMessages \/ (e.exc = "KeyError" /\ e.msg = "qualifier")

(* the rules in the order: required fields, dates (invoice_date and
   due_date), message reference, parties, items, payment method, currency *)
StatedRule(e) ==
    IF e.msg \in RequiredMessages THEN 1
    ELSE IF e.msg \in {"Invalid invoice_date format", "Invalid due_date format"} THEN 2
    ELSE IF e.msg = "Invalid characters in message reference" THEN 3
    ELSE IF IsPartyError(e) THEN 4
    ELSE IF e.msg \in ItemMessages THEN 5
    ELSE IF e.msg = "Invalid payment method" THEN 6
    ELSE IF e.msg = "Invalid currency" THEN 7
    ELSE 0

StatedViolated(d) ==
    IF RequiredViolated(d) THEN {1}
    ELSE {k \in 2..7 :
             \/ k = 2 /\ (InvoiceDateViolated(d) \/ DueDateViolated(d))
             \/ k = 3 /\ MessageRefViolated(d)
             \/ k = 4 /\ PartiesViolated(d)
             \/ k = 5 /\ ItemsViolated(d)
             \/ k = 6 /\ MethodViolated(d)
             \/ k = 7 /\ CurrencyViolated(d)}

(* C10 as stated: validation reports the error of the first violated rule in
   the order required fields, date formats (invoice_date and due_date),
   message reference, parties, items, payment method, currency. *)
C10_StatedOrder ==
    (pc # "validate" /\ StatedViolated(data) # {}) =>
        pc = "failed" /\ StatedRule(error) = MinOf(StatedViolated(data))

(* the rules in the order of the statements of _validate_invoice_data *)
CodeRule(e) ==
    IF e.msg \in RequiredMessages THEN 1
    ELSE IF e.msg = "Invalid characters in message reference" THEN 2
    ELSE IF e.msg = "Invalid invoice_date format" THEN 3
    ELSE IF IsPartyError(e) THEN 4
    ELSE IF e.msg \in ItemMessages THEN 5
    ELSE IF e.msg = "Invalid due_date format" THEN 6
    ELSE IF e.msg = "Invalid payment method" THEN 7
    ELSE IF e.msg = "Invalid currency" THEN 8
    ELSE IF e.msg \in ReferenceMessages THEN 9
    ELSE 0

CodeViolated(d) ==
    IF RequiredViolated(d) THEN {1}
    ELSE {k \in 2..9 :
             \/ k = 2 /\ MessageRefViolated(d)
             \/ k = 3 /\ InvoiceDateViolated(d)
             \/ k = 4 /\ PartiesViolated(d)
             \/ k = 5 /\ ItemsViolated(d)
             \/ k = 6 /\ DueDateViolated(d)
             \/ k = 7 /\ MethodViolated(d)
             \/ k = 8 /\ CurrencyViolated(d)
             \/ k = 9 /\ ReferenceViolated(d)}

(* C10: validation reports one error, that of the first violated rule in
   the order required fields, message reference, invoice_date, parties,
   items, due_date, payment method, currency, reference; a record that
   violates no rule passes validation. *)
C10_FirstViolatedRuleReported ==
    pc # "validate" =>
        IF CodeViolated(data) = {}
        THEN CodeRule(error) = 0
        ELSE pc = "failed" /\ CodeRule(error) = MinOf(CodeViolated(data))

(* a record with a bad message reference and a bad invoice date, rejected
   for the message reference *)
C10_Witness ==
    /\ pc = "failed"
    /\ ~RequiredViolated(data)
    /\ MessageRefViolated(data)
    /\ InvoiceDateViolated(data)
    /\ error.msg = "Invalid characters in message reference"


---------------------------------------------------------------------------
(* The example scenario *)

(* the positions of the segments with the given tag *)
Positions(tag) == {i \in 1..Len(buffer) : SegmentTag(buffer[i]) = tag}

(* C11: for the example record (789123, INV2025001, 20250322, buyer
   123456789, supplier 987654321, one item ABC123 of 10 x 25.50 at 20 %) the
   call does not fail, and the message it returns has one item group,
   followed at once by the three totals MOA 86 255.00, MOA 176 51.00 and
   MOA 9 306.00 in this order. *)
C11_ExampleTotals ==
    data = DataOf(ExampleCall) =>
        /\ pc # "failed"
        /\ pc = "done" =>
              /\ Has(result)
              /\ Cardinality(Positions(SEGMENT_LIN)) = 1
              /\ \E i \in Positions(SEGMENT_LIN) :
                    /\ i + 8 <= Len(buffer)
                    /\ [k \in 1..9 |-> SegmentTag(buffer[i + k - 1])] =
                           <<SEGMENT_LIN, SEGMENT_IMD, SEGMENT_QTY, SEGMENT_PRI, SEGMENT_TAX,
                             SEGMENT_MOA, SEGMENT_MOA, SEGMENT_MOA, SEGMENT_MOA>>
                    /\ buffer[i + 6] = <<"M","O","A","+","8","6",":","2","5","5",".","0","0","'","\n">>
                    /\ buffer[i + 7] = <<"M","O","A","+","1","7","6",":","5","1",".","0","0","'","\n">>
                    /\ buffer[i + 8] = <<"M","O","A","+","9",":","3","0","6",".","0","0","'","\n">>
              /\ Cardinality(Positions(SEGMENT_MOA)) = 4

(* the example record, its message returned *)
C11_Witness ==
    /\ data = DataOf(ExampleCall)
    /\ pc = "done"
    /\ Has(result)


---------------------------------------------------------------------------
(* Saving the message *)

FileErrors == {"File exists. Use --force to overwrite.", "File write error"}

(* C12: when the file cannot be written (it exists and force is not set, or
   the write fails), the caller of generate_invoic still gets the assembled
   message. *)
C12_MessageReturnedWhenSaveFails ==
    (pc = "failed" /\ error.msg \in FileErrors) => result = Some(edifact_message)

(* C13: without force, saving to a path that exists fails and leaves the
   file as it was; a save that succeeds leaves in the file the very text the
   call returns. *)
C13_SaveRespectsExistingFile ==
    /\ [][(pc = "save" /\ ~args.force /\ Has(fs)) =>
              /\ pc' = "failed"
              /\ error'.msg = "File exists. Use --force to overwrite."
              /\ fs' = fs]_vars
    /\ [][(pc = "write" /\ pc' = "return") => fs' = Some(edifact_message)]_vars
    /\ []((pc = "done" /\ Has(args.filename)) => (Has(result) /\ fs = result))

(* a save refused because the file is there: the file still holds what it
   held *)
C13_Witness ==
    /\ pc = "failed"
    /\ error.msg = "File exists. Use --force to overwrite."
    /\ ~args.force
    /\ fs = Some(OldContent)
    /\ edifact_message # <<>>


---------------------------------------------------------------------------
(* Values and the escaper *)

(* the values of one party that go into its NAD segment, as they stand when
   the segment is put together *)
PartyValues(party) ==
    {sanitize_value(Get(party.qualifier), TRUE, Absent), sanitize_value(Get(party.id), FALSE, Absent)}
    \cup (IF Has(party.name)
          THEN {sanitize_value(Get(party.name), FALSE, Some(MAX_NAME_LENGTH))} ELSE {})
    \cup (IF Has(party.street)
          THEN {sanitize_value(Get(party.street), FALSE, Some(MAX_ADDRESS_LINE_LENGTH))} ELSE {})
    \cup (IF Has(party.city)
          THEN {sanitize_value(Get(party.city), FALSE, Some(MAX_CITY_LENGTH))} ELSE {})
    \cup (IF Has(party.country)
          THEN {sanitize_value(Get(party.country), TRUE, Some(MAX_COUNTRY_LENGTH))} ELSE {})

(* the interchange control reference of the call: the caller's, or the
   message reference *)
ControlRef ==
    OrElse(args.interchange_control_ref, sanitize_value(Get(data.message_ref), FALSE, Absent))

(* the pairs <<tag, value>>: the call puts the value, taken from the record
   or from the caller's references, into a segment with this tag *)
Insertions ==
    {<<SEGMENT_UNB, ControlRef>>, <<SEGMENT_UNZ, ControlRef>>,
     <<SEGMENT_UNB, OrElse(args.application_ref, <<>>)>>,
     <<SEGMENT_UNH, sanitize_value(Get(data.message_ref), FALSE, Absent)>>,
     <<SEGMENT_UNT, sanitize_value(Get(data.message_ref), FALSE, Absent)>>,
     <<SEGMENT_BGM, sanitize_value(Get(data.invoice_number), FALSE, Absent)>>,
     <<SEGMENT_DTM, Get(data.invoice_date)>>}
    \cup (IF Has(data.currency) THEN {<<SEGMENT_CUX, Get(data.currency)>>} ELSE {})
    \cup (IF Has(data.reference)
          THEN {<<SEGMENT_RFF, sanitize_value(Get(data.reference), FALSE, Absent)>>} ELSE {})
    \cup UNION {{<<SEGMENT_NAD, v>> : v \in PartyValues(Get(data.parties)[i])} :
                   i \in 1..Len(Get(data.parties))}
    \cup UNION {{<<SEGMENT_LIN, sanitize_value(Get(Get(data.items)[i].product_code), FALSE, Absent)>>,
                  <<SEGMENT_IMD, sanitize_value(Get(Get(data.items)[i].description), FALSE, Absent)>>,
                  <<SEGMENT_QTY, ItemUnit(Get(data.items)[i])>>,
                  <<SEGMENT_PRI, ItemUnit(Get(data.items)[i])>>} :
                   i \in 1..Len(Get(data.items))}
    \cup (IF Has(data.payment_terms) /\ Has(Get(data.payment_terms).due_date)
          THEN {<<SEGMENT_DTM, Get(Get(data.payment_terms).due_date)>>} ELSE {})
    \cup (IF Has(data.payment_terms) /\ Has(Get(data.payment_terms).due_date)
             /\ Has(Get(data.payment_terms).method)
          THEN {<<SEGMENT_PAT, sanitize_value(Get(Get(data.payment_terms).method), FALSE, Absent)>>}
          ELSE {})

(* the segment holds the text as one whole component: a separator before it,
   a separator or the terminator after it *)
HoldsComponent(segment, text) ==
    \E p \in 2..(Len(segment) - Len(text)) :
        /\ SubSeq(segment, p, p + Len(text) - 1) = text
        /\ segment[p - 1] \in {config.data_separator, config.component_separator}
        /\ segment[p + Len(text)] \in {config.data_separator, config.component_separator,
                                        config.segment_terminator}

(* C14: every value the call takes from the record or from the caller's
   references stands in its segment escaped exactly once: the segment holds,
   as a whole component, what the escaper makes of the value. *)
C14_EveryValueEscapedOnce ==
    pc = "done" =>
        \A ins \in Insertions :
            ins[2] # <<>> =>
                \E i \in Positions(ins[1]) :
                    HoldsComponent(buffer[i], escape_segment_value(config, ins[2]))


(* reading s from the left, every pair of a release character and the
   character after it replaced by that character *)
RECURSIVE Unescape(_)
Unescape(s) ==
    IF s = <<>> THEN <<>>
    ELSE IF Head(s) = "?" /\ Len(s) >= 2
         THEN <<s[2]>> \o Unescape(SubSeq(s, 3, Len(s)))
         ELSE <<Head(s)>> \o Unescape(Tail(s))

(* the pairs of an input and what the escaper makes of it, with the default
   separators *)
EscapedForms == {<<v, escape_segment_value(DefaultConfig, v)>> : v \in EscapeInputs}

(* C15: reading the escaped value from the left and dropping the release
   character of every pair gives the value back, and no other value has the
   same escaped form. *)
C15_EscapingReversible ==
    Has(escOut) =>
        /\ Unescape(escOut[1]) = escIn
        /\ \A form \in EscapedForms : form[2] = escOut[1] => form[1] = escIn

(* a value of a release character, a separator and a space *)
C15_Witness ==
    /\ escIn = <<"?","+"," ">>
    /\ Has(escOut)
    /\ escOut[1] = <<"?","?","?","+","?"," ">>

(* the characters the escaper prefixes with the release character *)
Escaped == {"?", "'", config.data_separator, config.component_separator, " "}

(* C16: a value with a release character, terminator, separator or space is
   changed again by a second escaping; a value with none of them is left as
   it is by the first. *)
C16_NotIdempotent ==
    /\ Has(escOut) =>
           ((Range(escIn) \cap Escaped = {}) => escOut[1] = escIn)
    /\ Len(escOut) = 2 =>
           ((Range(escIn) \cap Escaped # {}) => escOut[2] # escOut[1])

(* a space, escaped once and twice *)
C16_Witness ==
    /\ escIn = <<" ">>
    /\ escOut = <<<<"?"," ">>, <<"?","?","?"," ">>>>


---------------------------------------------------------------------------
(* Lines and characters *)

(* the places of the line feeds of a text *)
LineFeeds(text) == {p \in 1..Len(text) : text[p] = "\n"}

(* C17: the returned text of a valid record has one segment per line: as
   many lines as segments were written, each line ending with the segment
   terminator. *)
C17_OneSegmentPerLine ==
    (pc = "done" /\ Has(result)) =>
        /\ Cardinality(LineFeeds(Get(result))) = Len(buffer)
        /\ \A p \in LineFeeds(Get(result)) :
               p > 1 /\ Get(result)[p - 1] = config.segment_terminator
        /\ Get(result)[Len(Get(result))] = "\n"

(* the characters the message reference may have: letters, digits, the space
   and the symbols _ - . @ # & *)
StatedChar(c) ==
    \/ c \in Range(LowerLetters) \/ c \in Range(UpperLetters)
    \/ IsDigit(c)
    \/ c \in {" ", "_", "-", ".", "@", "#", "&"}

(* C18: a record whose message reference, trimmed as the validator trims it,
   has a character outside the letters, digits, space and _ - . @ # & does
   not get past validation. *)
C18_MessageRefCharacters ==
    (/\ Has(data.message_ref)
     /\ \E c \in Range(sanitize_value(Get(data.message_ref), FALSE, Absent)) : ~StatedChar(c))
        => (pc \in {"validate", "failed"} /\ buffer = <<>>)


---------------------------------------------------------------------------
(* Length caps of the items *)

(* the item's product code or description, trimmed as the validator trims
   it, is longer than its cap *)
OverLong(item) ==
    \/ /\ Has(item.product_code)
       /\ Len(sanitize_value(Get(item.product_code), FALSE, Absent)) > 35
    \/ /\ Has(item.description)
       /\ Len(sanitize_value(Get(item.description), FALSE, Absent)) > 70

(* the product code printed in a LIN segment LIN+n++code:EN and the
   description printed in an IMD segment IMD+F++++description, both still
   escaped *)
PrintedCode(segment) ==
    SubSeq(segment, 7 + Len(LeadingDigits(SubSeq(segment, 5, Len(segment)))), Len(segment) - 5)

PrintedDescription(segment) == SubSeq(segment, 10, Len(segment) - 2)

(* C19: a record with an item whose product code is longer than 35
   characters or whose description is longer than 70 does not get past
   validation, and no LIN segment prints a product code of more than 35
   characters, no IMD segment a description of more than 70. *)
C19_LengthCapsRejectNotTruncate ==
    /\ (Has(data.items) /\ \E i \in 1..Len(Get(data.items)) : OverLong(Get(data.items)[i]))
           => (pc \in {"validate", "failed"} /\ buffer = <<>>)
    /\ \A i \in Positions(SEGMENT_LIN) : Len(Unescape(PrintedCode(buffer[i]))) <= 35
    /\ \A i \in Positions(SEGMENT_IMD) : Len(Unescape(PrintedDescription(buffer[i]))) <= 70

(* a product code of 36 characters, rejected for its length *)
C19_Witness ==
    /\ pc = "failed"
    /\ error.msg = "Item product code exceeds maximum length"
    /\ \E i \in 1..Len(Get(data.items)) :
           Len(Get(Get(data.items)[i].product_code)) = 36
    /\ buffer = <<>>


---------------------------------------------------------------------------
(* The sanitizer *)

(* the value trimmed, upper-cased when asked for, and cut to its first n
   characters when it has more *)
Trimmed(value, uppercase) ==
    IF uppercase THEN Upper(Strip(value)) ELSE Strip(value)

FirstCharacters(s, n) == IF Len(s) > n THEN SubSeq(s, 1, n) ELSE s

(* C20: sanitize_value returns the value trimmed, upper-cased when uppercase
   is set, cut to its first max_length characters when max_length is set
   and the trimmed value is longer; None gives the empty string; with
   max_length set the result has at most max_length characters. *)
C20_Sanitize ==
    Has(sanOut) =>
        /\ sanIn.value = None => Get(sanOut) = <<>>
        /\ sanIn.value # None =>
               Get(sanOut) =
                   IF Has(sanIn.max_length)
                   THEN FirstCharacters(Trimmed(sanIn.value, sanIn.uppercase),
                                        Get(sanIn.max_length))
                   ELSE Trimmed(sanIn.value, sanIn.uppercase)
        /\ Has(sanIn.max_length) => Len(Get(sanOut)) <= Get(sanIn.max_length)


---------------------------------------------------------------------------
(* The optional parts *)

(* the segment after a PAT segment is the DTM segment of the due date *)
PatPairs ==
    {i \in Positions(SEGMENT_PAT) :
        i < Len(buffer) /\ HasPrefix(buffer[i + 1], SEGMENT_DTM \o <<"+","1","3",":">>)}

(* C21: the message of a valid record has a CUX segment exactly when the
   record has a currency, an RFF segment exactly when it has a reference,
   and the pair PAT, DTM exactly when it has payment terms. *)
C21_OptionalParts ==
    pc = "done" =>
        /\ Cardinality(Positions(SEGMENT_CUX)) = IF Has(data.currency) THEN 1 ELSE 0
        /\ Cardinality(Positions(SEGMENT_RFF)) = IF Has(data.reference) THEN 1 ELSE 0
        /\ Cardinality(Positions(SEGMENT_PAT)) = IF Has(data.payment_terms) THEN 1 ELSE 0
        /\ PatPairs = Positions(SEGMENT_PAT)


---------------------------------------------------------------------------
(* Rejections *)

(* C23: a record that validation rejects is reported as one
   EDIFACTGeneratorError that names the field at fault, and as no other
   exception: also when a party lacks its qualifier or its id, or an item a
   required field. *)
C23_RejectionsAreGeneratorErrors ==
    (pc = "failed" /\ StoppedAtValidation) =>
        /\ error.exc = "EDIFACTGeneratorError"
        /\ error.field # ""


---------------------------------------------------------------------------
(* The currency *)

(* the currency code printed in a CUX segment CUX+2:code:9 *)
PrintedCurrency(segment) == SubSeq(segment, 7, Len(segment) - 4)

(* C24: the currency code printed in a CUX segment is a member of the
   closed currency set: it is the value, trimmed and upper-cased, that
   validation looked up in the set. *)
C24_PrintedCurrencyIsValid ==
    \A i \in Positions(SEGMENT_CUX) :
        /\ PrintedCurrency(buffer[i]) \in VALID_CURRENCIES
        /\ PrintedCurrency(buffer[i]) = sanitize_value(Get(data.currency), TRUE, Absent)


---------------------------------------------------------------------------
(* The segment counter *)

(* C25: at every step the counter equals the number of segments written to
   the buffer so far, and the count printed in the UNT segment is the number
   of segments written before it plus the fixed 2. *)
C25_CounterFollowsBuffer ==
    /\ segment_count = Len(buffer)
    /\ \A i \in Positions(SEGMENT_UNT) : FirstElementNumber(buffer[i]) = (i - 1) + 2

(* a finished message with two items and payment terms *)
C25_Witness ==
    /\ pc = "done"
    /\ Cardinality(Positions(SEGMENT_LIN)) = 2
    /\ Positions(SEGMENT_UNT) # {}
    /\ segment_count = Len(buffer)
    /\ segment_count > 17


---------------------------------------------------------------------------
(* The printed totals *)

(* the amount printed in the MOA segment with the qualifier, in cents *)
PrintedCents(qualifier) == DigitsVal(SelectSeq(MoaAmounts(qualifier)[1], IsDigit))

(* the three totals are printed *)
TotalsPrinted ==
    /\ Len(MoaAmounts(<<"8","6">>)) = 1
    /\ Len(MoaAmounts(<<"1","7","6">>)) = 1
    /\ Len(MoaAmounts(<<"9">>)) = 1

(* C26 as stated: the amount printed in MOA 86 plus the amount printed in
   MOA 176 is the amount printed in MOA 9. *)
C26_PrintedTotalsAddUp ==
    TotalsPrinted =>
        PrintedCents(<<"8","6">>) + PrintedCents(<<"1","7","6">>) = PrintedCents(<<"9">>)

(* C26: the amount printed in MOA 86 plus the amount printed in MOA 176
   differs from the amount printed in MOA 9 by one cent at most. *)
C26_PrintedTotalsWithinOneCent ==
    TotalsPrinted =>
        /\ PrintedCents(<<"8","6">>) + PrintedCents(<<"1","7","6">>) - PrintedCents(<<"9">>) <= 1
        /\ PrintedCents(<<"9">>) - PrintedCents(<<"8","6">>) - PrintedCents(<<"1","7","6">>) <= 1

(* a finished message whose grand total is one cent more than the two totals
   above it *)
C26_Witness ==
    /\ pc = "done"
    /\ TotalsPrinted
    /\ PrintedCents(<<"9">>) = PrintedCents(<<"8","6">>) + PrintedCents(<<"1","7","6">>) + 1


---------------------------------------------------------------------------
(* Headers and trailers *)

(* the text of a segment after its first n characters, without the
   terminator and the line feed *)
After(segment, n) == SubSeq(segment, n + 1, Len(segment) - 2)

(* s ends with the text *)
HasSuffix(s, suffix) ==
    Len(s) >= Len(suffix) /\ SubSeq(s, Len(s) - Len(suffix) + 1, Len(s)) = suffix

(* the message reference printed in UNH+ref+INVOIC:D:96A:UN:UNOA and the one
   printed in UNT+count+ref *)
UnhReference(segment) == SubSeq(segment, 5, Len(segment) - 23)

UntReference(segment) ==
    After(segment, 5 + Len(LeadingDigits(SubSeq(segment, 5, Len(segment)))))

(* the UNB segment carries the control reference ref twice: after the
   application reference, before the recipient, and after the 11 characters
   of date and time, before the test indicator *)
UnbCarries(segment, ref) ==
    /\ HasSuffix(After(segment, 0), <<"+">> \o ref \o <<"+","1",":","U","N","O","A">>)
    /\ HasSuffix(SubSeq(segment, 1, Len(segment) - Len(ref) - 21),
                 <<":">> \o ref \o <<"+","R","E","C","E","I","V","E","R",":","0","0","1","+">>)

(* C27: the message reference of the UNT segment is that of the UNH
   segment, the control reference of the UNZ segment is that of the UNB
   segment, and the UNZ segment declares one message. *)
C27_TrailersMatchHeaders ==
    /\ \A t \in Positions(SEGMENT_UNT) : \A h \in Positions(SEGMENT_UNH) :
           UntReference(buffer[t]) = UnhReference(buffer[h])
    /\ \A z \in Positions(SEGMENT_UNZ) :
           /\ HasPrefix(buffer[z], <<"U","N","Z","+","1","+">>)
           /\ \A b \in Positions(SEGMENT_UNB) : UnbCarries(buffer[b], After(buffer[z], 6))

(* a finished message with the caller's control reference I+1 and the
   message reference M1 *)
C27_Witness ==
    /\ pc = "done"
    /\ args.interchange_control_ref = Some(<<"I","+","1">>)
    /\ buffer[Len(buffer)] = <<"U","N","Z","+","1","+","I","+","1","'","\n">>
    /\ buffer[Len(buffer) - 1] = <<"U","N","T","+","1","7","+","M","1","'","\n">>
    /\ buffer[2] = <<"U","N","H","+","M","1","+","I","N","V","O","I","C",":","D",":","9","6","A",":","U","N",":","U","N","O","A","'","\n">>


---------------------------------------------------------------------------
(* The invoice number *)

(* the invoice number printed in a BGM segment BGM+380+number+9 *)
PrintedInvoiceNumber(segment) == SubSeq(segment, 9, Len(segment) - 4)

(* C29: no BGM segment has an empty invoice number: a record whose invoice
   number is empty, or empty once trimmed, does not get past validation. *)
C29_InvoiceNumberNotEmpty ==
    /\ \A i \in Positions(SEGMENT_BGM) : PrintedInvoiceNumber(buffer[i]) # <<>>
    /\ (Has(data.invoice_number)
           /\ sanitize_value(Get(data.invoice_number), FALSE, Absent) = <<>>)
          => (pc \in {"validate", "failed"} /\ buffer = <<>>)


---------------------------------------------------------------------------
(* The escaper and the configured separators *)

(* in s, read from the left, a release character takes the character after
   it, and none of the separators and no terminator of the configuration is
   left over *)
RECURSIVE NoBareDelimiterOf(_, _)
NoBareDelimiterOf(cfg, s) ==
    IF s = <<>> THEN TRUE
    ELSE IF Head(s) = "?" THEN Len(s) >= 2 /\ NoBareDelimiterOf(cfg, SubSeq(s, 3, Len(s)))
    ELSE /\ Head(s) \notin {cfg.data_separator, cfg.component_separator,
                             cfg.segment_terminator}
         /\ NoBareDelimiterOf(cfg, Tail(s))

(* C28: whatever separators and terminator the generator was constructed
   with, the result of _escape_segment_value has no bare data separator,
   component separator or segment terminator of the generator. *)
C28_NoBareConfiguredDelimiter ==
    Has(escOut) => NoBareDelimiterOf(config, escOut[1])


---------------------------------------------------------------------------
(* Calls in progress at once *)

(* the segments a call on record d with arguments a writes when nothing else
   runs and the clock reads t: the segments of generate_invoic in its order,
   the UNT segment counting those before it *)
AloneSegments(cfg, d, a, t) ==
    LET items == process_items(cfg, Get(d.items))
        body ==
            <<generate_interchange_header(cfg, d, a.interchange_control_ref,
                                          a.application_ref, t),
              generate_message_header(cfg, d), BgmSegment(cfg, d), DtmSegment(cfg, d)>>
            \o (IF Has(d.currency) THEN <<CuxSegment(cfg, d)>> ELSE <<>>)
            \o (IF Has(d.reference) THEN <<RffSegment(cfg, d)>> ELSE <<>>)
            \o generate_party_segments(cfg, Get(d.parties)).segments
            \o items.segments
            \o generate_monetary_segments(cfg, items.total_amount, items.total_tax)
            \o (IF Has(d.payment_terms)
                THEN generate_payment_segments(cfg, Get(d.payment_terms))
                ELSE <<>>)
    IN  body \o <<UntSegment(cfg, d, Len(body)),
                  UnzSegment(cfg, d, a.interchange_control_ref)>>

(* the exception the call on record d raises before it has a message, when
   nothing else runs; NoError when it raises none *)
AloneError(cfg, d) ==
    IF validate_invoice_data(d) # NoError THEN validate_invoice_data(d)
    ELSE IF generate_party_segments(cfg, Get(d.parties)).error # NoError
         THEN generate_party_segments(cfg, Get(d.parties)).error
    ELSE process_items(cfg, Get(d.items)).error

(* the message the call returns when nothing else runs, empty when it
   raises *)
AloneMessage(cfg, d, a, t) ==
    LET segments == AloneSegments(cfg, d, a, t)
    IN  IF AloneError(cfg, d) # NoError THEN <<>>
        ELSE Concat([i \in 1..Len(segments) |-> segments[i] \o <<"\n">>])

(* a statement of the running call, the second call suspended *)
RunningStep == Has(other) /\ other' = other

(* C22: two calls on different records with their statements interleaved in
   any order: a statement of one call leaves the locals of the other as they
   are and a suspended call goes on with the locals it had; each call
   assembles and returns the message it returns alone and raises what it
   raises alone. *)
C22_InterleavedCallsAsAlone ==
    /\ [][Has(other) => \/ other' = other
                        \/ other' = Some(Locals) /\ Locals' = Get(other)]_vars
    /\ [][(RunningStep /\ pc = "getvalue") =>
              \E t \in Minutes : edifact_message' = AloneMessage(config, data, args, t)]_vars
    /\ [][(RunningStep /\ pc \in {"save", "write", "return"}) =>
              edifact_message' = edifact_message]_vars
    /\ [][(RunningStep /\ pc = "return") => result' = Some(edifact_message)]_vars
    /\ [][(RunningStep /\ pc # "failed" /\ pc' = "failed" /\ error'.msg \notin FileErrors) =>
              error' # NoError /\ error' = AloneError(config, data)]_vars

(* both calls have returned, each its own message, the counts of their UNT
   segments different *)
C22_Witness ==
    /\ Has(other)
    /\ pc = "done"
    /\ Get(other).pc = "done"
    /\ data # Get(other).data
    /\ result = Some(AloneMessage(config, data, args, 0))
    /\ Get(other).result = Some(AloneMessage(config, Get(other).data, Get(other).args, 1))
    /\ Cardinality(Positions(SEGMENT_LIN)) = 2
    /\ segment_count # Get(other).segment_count

(* both calls save to the same path, neither with force *)
BothSaveUnforced ==
    /\ Has(other)
    /\ Has(args.filename)
    /\ Get(other).args.filename = args.filename
    /\ ~args.force
    /\ ~Get(other).args.force

(* the call with locals c has written the file: it is past the write *)
HasWritten(c) == c.pc \in {"return", "done"}

(* C30: of two calls in progress at once that save to the same path, which
   is not there when they start, neither with force, at most one writes the
   file: the two never both get past the write, the second one writing over
   the file of the first. *)
C30_AtMostOneWrites ==
    BothSaveUnforced => ~(HasWritten(Locals) /\ HasWritten(Get(other)))

=============================================================================
